---- MODULE Spec2Model ----
(***************************************************************************)
(* Model of the input-validation layer of the Archestra coding agent:      *)
(*   _sanitize_path   (src/tools/git_tools.py)                             *)
(*   _parse_repo_info (src/tools/github_tools.py)                          *)
(* and of the Git and GitHub tools that call them.                         *)
(* Strings are sequences of one-character strings, so that prefix tests,   *)
(* splitting, joining and pattern matching are computed character by       *)
(* character, the way the Python code computes them.                       *)
(***************************************************************************)
EXTENDS Integers, Sequences, FiniteSets, TLC

VARIABLES pc, cwd, target_dir, base_dir, result, ref, repo_url, parsed,
          earlier, call, fs, env, trace, ret

vars == <<pc, cwd, target_dir, base_dir, result, ref, repo_url, parsed,
          earlier, call, fs, env, trace, ret>>

\* the state of a tool call: the call, the filesystem and environment it
\* runs in, the effects it has had and what it returned
toolVars == <<call, fs, env, trace, ret>>

(***************************************************************************)
(* Bounds of the model.                                                    *)
(***************************************************************************)
\* largest number of '/'-separated segments of a generated target_dir
MaxTargetSegs == 4
\* largest number of '/'-separated segments after the prefix of a generated
\* repository reference
MaxRepoSegs == 3
\* largest number of files in the files list of a commit
MaxFiles == 2

(***************************************************************************)
(* String helpers (Python str methods used by the code).                   *)
(***************************************************************************)
sep == "/"

\* str.startswith
StartsWith(s, p) ==
    /\ Len(p) <= Len(s)
    /\ SubSeq(s, 1, Len(p)) = p

\* str.endswith
EndsWith(s, p) ==
    /\ Len(p) <= Len(s)
    /\ SubSeq(s, Len(s) - Len(p) + 1, Len(s)) = p

\* s[n:] for 0 <= n
Drop(s, n) == SubSeq(s, n + 1, Len(s))

\* s[:n] for 0 <= n
Take(s, n) == SubSeq(s, 1, IF n < Len(s) THEN n ELSE Len(s))

\* str.split(c) for a one-character separator c: always at least one piece
RECURSIVE Split(_, _)
Split(s, c) ==
    IF \A i \in 1..Len(s) : s[i] # c
    THEN <<s>>
    ELSE LET i == CHOOSE k \in 1..Len(s) :
                     s[k] = c /\ \A j \in 1..(k - 1) : s[j] # c
         IN  <<SubSeq(s, 1, i - 1)>> \o Split(Drop(s, i), c)

\* c.join(parts)
RECURSIVE Join(_, _)
Join(parts, c) ==
    IF parts = <<>> THEN <<>>
    ELSE IF Len(parts) = 1 THEN parts[1]
    ELSE parts[1] \o <<c>> \o Join(Tail(parts), c)

\* code point of the characters the model uses (Python compares strings by
\* code point)
Ord(ch) ==
    CASE ch = "\n" -> 10
      [] ch = " "  -> 32
      [] ch = "-"  -> 45
      [] ch = "."  -> 46
      [] ch = "/"  -> 47
      [] ch = ":"  -> 58
      [] ch = "="  -> 61
      [] ch = "?"  -> 63
      [] ch = "@"  -> 64
      [] ch = "G"  -> 71
      [] ch = "H"  -> 72
      [] ch = "_"  -> 95
      [] ch = "a"  -> 97
      [] ch = "b"  -> 98
      [] ch = "c"  -> 99
      [] ch = "d"  -> 100
      [] ch = "e"  -> 101
      [] ch = "g"  -> 103
      [] ch = "h"  -> 104
      [] ch = "i"  -> 105
      [] ch = "l"  -> 108
      [] ch = "m"  -> 109
      [] ch = "o"  -> 111
      [] ch = "p"  -> 112
      [] ch = "r"  -> 114
      [] ch = "s"  -> 115
      [] ch = "t"  -> 116
      [] ch = "u"  -> 117
      [] ch = "v"  -> 118
      [] ch = "w"  -> 119
      [] OTHER     -> 0

\* s < t for Python strings
RECURSIVE StrLess(_, _)
StrLess(s, t) ==
    IF t = <<>> THEN FALSE
    ELSE IF s = <<>> THEN TRUE
    ELSE IF s[1] # t[1] THEN Ord(s[1]) < Ord(t[1])
    ELSE StrLess(Tail(s), Tail(t))

\* a < b for Python lists of strings
RECURSIVE ListLess(_, _)
ListLess(a, b) ==
    IF b = <<>> THEN FALSE
    ELSE IF a = <<>> THEN TRUE
    ELSE IF a[1] # b[1] THEN StrLess(a[1], b[1])
    ELSE ListLess(Tail(a), Tail(b))

(***************************************************************************)
(* posixpath functions called by _sanitize_path.                           *)
(***************************************************************************)
\* os.path.isabs
isabs(s) == StartsWith(s, <<sep>>)

\* os.path.join(a, p)
join(a, p) ==
    IF StartsWith(p, <<sep>>) THEN p
    ELSE IF a = <<>> \/ EndsWith(a, <<sep>>) THEN a \o p
    ELSE a \o <<sep>> \o p

\* NormComps with a '..' component kept instead of resolved
RECURSIVE NormCompsKeepDotDot(_, _, _)
NormCompsKeepDotDot(comps, new_comps, initial_slashes) ==
    IF comps = <<>> THEN new_comps
    ELSE IF Head(comps) = <<>> \/ Head(comps) = <<".">>
    THEN NormCompsKeepDotDot(Tail(comps), new_comps, initial_slashes)
    ELSE NormCompsKeepDotDot(Tail(comps), Append(new_comps, Head(comps)),
                             initial_slashes)

\* NormComps with a '.' component kept instead of skipped
RECURSIVE NormCompsKeepDot(_, _, _)
NormCompsKeepDot(comps, new_comps, initial_slashes) ==
    IF comps = <<>> THEN new_comps
    ELSE LET comp == Head(comps)
             n    == Len(new_comps)
         IN  IF comp = <<>>
             THEN NormCompsKeepDot(Tail(comps), new_comps, initial_slashes)
             ELSE IF \/ comp # <<".", ".">>
                     \/ (initial_slashes = 0 /\ n = 0)
                     \/ (n > 0 /\ new_comps[n] = <<".", ".">>)
             THEN NormCompsKeepDot(Tail(comps), Append(new_comps, comp),
                                   initial_slashes)
             ELSE IF n > 0
             THEN NormCompsKeepDot(Tail(comps), SubSeq(new_comps, 1, n - 1),
                                   initial_slashes)
             ELSE NormCompsKeepDot(Tail(comps), new_comps, initial_slashes)

\* the loop of os.path.normpath over the components
RECURSIVE NormComps(_, _, _)
NormComps(comps, new_comps, initial_slashes) ==
    IF comps = <<>> THEN new_comps
    ELSE LET comp == Head(comps)
             n    == Len(new_comps)
         IN  IF comp = <<>> \/ comp = <<".">>
             THEN NormComps(Tail(comps), new_comps, initial_slashes)
             ELSE IF \/ comp # <<".", ".">>
                     \/ (initial_slashes = 0 /\ n = 0)
                     \/ (n > 0 /\ new_comps[n] = <<".", ".">>)
             THEN NormComps(Tail(comps), Append(new_comps, comp), initial_slashes)
             ELSE IF n > 0
             THEN NormComps(Tail(comps), SubSeq(new_comps, 1, n - 1), initial_slashes)
             ELSE NormComps(Tail(comps), new_comps, initial_slashes)

\* os.path.normpath
normpath(path) ==
    IF path = <<>> THEN <<".">>
    ELSE LET initial_slashes ==
                 IF ~StartsWith(path, <<sep>>) THEN 0
                 ELSE IF StartsWith(path, <<sep, sep>>)
                         /\ ~StartsWith(path, <<sep, sep, sep>>) THEN 2
                 ELSE 1
             comps == NormComps(Split(path, sep), <<>>, initial_slashes)
             p == [i \in 1..initial_slashes |-> sep] \o Join(comps, sep)
         IN  IF p = <<>> THEN <<".">> ELSE p

\* abspath that normalizes without making the path absolute
abspathNoCwd(path, wd) == normpath(path)

\* os.path.abspath, with the process's current directory as a parameter
abspath(path, wd) ==
    IF ~isabs(path) THEN normpath(join(wd, path)) ELSE normpath(path)

\* the components os.path.commonpath keeps of one path
RECURSIVE KeepComps(_)
KeepComps(comps) ==
    IF comps = <<>> THEN <<>>
    ELSE IF Head(comps) = <<>> \/ Head(comps) = <<".">>
    THEN KeepComps(Tail(comps))
    ELSE <<Head(comps)>> \o KeepComps(Tail(comps))

\* the loop of os.path.commonpath: s1 up to the first component where it
\* differs from s2
CommonComps(s1, s2) ==
    IF \A i \in 1..Len(s1) : s1[i] = s2[i]
    THEN s1
    ELSE LET i == CHOOSE k \in 1..Len(s1) :
                     s1[k] # s2[k] /\ \A j \in 1..(k - 1) : s1[j] = s2[j]
         IN  SubSeq(s1, 1, i - 1)

\* os.path.commonpath([p, q]); raises ValueError when one path is absolute
\* and the other is not
commonpath(p, q) ==
    IF isabs(p) # isabs(q)
    THEN [raised |-> TRUE, value |-> <<>>]
    ELSE LET a  == KeepComps(Split(p, sep))
             b  == KeepComps(Split(q, sep))
             s1 == IF ListLess(b, a) THEN b ELSE a
             s2 == IF ListLess(b, a) THEN a ELSE b
             prefix == IF isabs(p) THEN <<sep>> ELSE <<>>
         IN  [raised |-> FALSE,
              value  |-> prefix \o Join(CommonComps(s1, s2), sep)]

(***************************************************************************)
(* _sanitize_path                                                          *)
(***************************************************************************)
NoError == [none |-> TRUE, text |-> "", arg |-> <<>>]

\* f"Absolute paths are not allowed. Use a relative directory name instead of '{target_dir}'"
AbsoluteError(t) ==
    [none |-> FALSE, text |-> "Absolute paths are not allowed", arg |-> t]

\* f"Path traversal detected. Target must be within {base_dir}"
TraversalError(b) ==
    [none |-> FALSE, text |-> "Path traversal detected", arg |-> b]

\* f"Invalid path. Target must be within {base_dir}"
InvalidError(b) ==
    [none |-> FALSE, text |-> "Invalid path", arg |-> b]

\* the check of line 54 as a plain string-prefix test
WithinBasePrefixOnly(full_path, base) == StartsWith(full_path, base)

\* the check of line 54: full_path is base_dir or starts with base_dir + os.sep
WithinBase(full_path, base) ==
    \/ full_path = base
    \/ StartsWith(full_path, base \o <<sep>>)

\* _sanitize_path with the absolute-path rule after the containment rules
SanitizePathTraversalFirst(t, b, wd) ==
    LET base      == abspath(b, wd)
        full_path == normpath(join(base, t))
        common    == commonpath(base, full_path)
    IN  IF common.raised
        THEN [path |-> <<>>, error |-> InvalidError(base)]
        ELSE IF common.value # base
        THEN [path |-> <<>>, error |-> TraversalError(base)]
        ELSE IF ~WithinBase(full_path, base)
        THEN [path |-> <<>>, error |-> TraversalError(base)]
        ELSE IF isabs(t)
        THEN [path |-> <<>>, error |-> AbsoluteError(t)]
        ELSE [path |-> full_path, error |-> NoError]

\* _sanitize_path(target_dir, base_dir) in a process whose current
\* directory is wd
SanitizePath(t, b, wd) ==
    IF isabs(t) THEN [path |-> <<>>, error |-> AbsoluteError(t)]
    ELSE LET base      == abspath(b, wd)
             full_path == normpath(join(base, t))
             common    == commonpath(base, full_path)
         IN  IF common.raised
             THEN [path |-> <<>>, error |-> InvalidError(base)]
             ELSE IF common.value # base
             THEN [path |-> <<>>, error |-> TraversalError(base)]
             ELSE IF ~WithinBase(full_path, base)
             THEN [path |-> <<>>, error |-> TraversalError(base)]
             ELSE [path |-> full_path, error |-> NoError]

(***************************************************************************)
(* The three patterns of github_tools.py and the matcher.  A pattern is a  *)
(* sequence of items tried left to right with backtracking, in the         *)
(* priority order of Python's re: an optional item first tries its         *)
(* alternatives in order and then the empty match, a greedy token tries    *)
(* the longest run first and a lazy token the shortest.                    *)
(***************************************************************************)
\* the character class written as [^/]
TokCharNotSlash(ch) == ch # "/"

\* the character class [a-zA-Z0-9_.-]
TokChar(ch) ==
    LET o == Ord(ch)
    IN  \/ (97 <= o /\ o <= 122)
        \/ (65 <= o /\ o <= 90)
        \/ (48 <= o /\ o <= 57)
        \/ o \in {95, 46, 45}

\* length of the longest prefix of s made of class characters
RECURSIVE TokRun(_)
TokRun(s) ==
    IF s = <<>> \/ ~TokChar(Head(s)) THEN 0 ELSE 1 + TokRun(Tail(s))

Lit(s)       == [kind |-> "lit", alts |-> <<s>>, lazy |-> FALSE]
Optional(as) == [kind |-> "opt", alts |-> as, lazy |-> FALSE]
Token(lz)    == [kind |-> "tok", alts |-> <<>>, lazy |-> lz]
EndAnchor    == [kind |-> "end", alts |-> <<>>, lazy |-> FALSE]

NoMatch == [ok |-> FALSE, groups |-> <<>>]

RECURSIVE MatchItems(_, _, _)
RECURSIVE TryAlts(_, _, _, _)
RECURSIVE TryLens(_, _, _, _, _, _)

\* the alternatives of an optional item in order, then the empty match
TryAlts(as, items, s, g) ==
    IF as = <<>> THEN MatchItems(items, s, g)
    ELSE LET m == IF StartsWith(s, Head(as))
                  THEN MatchItems(items, Drop(s, Len(Head(as))), g)
                  ELSE NoMatch
         IN  IF m.ok THEN m ELSE TryAlts(Tail(as), items, s, g)

\* a capture group of n characters, n moving by step until it leaves 1..run
TryLens(n, step, run, items, s, g) ==
    IF n < 1 \/ n > run THEN NoMatch
    ELSE LET m == MatchItems(items, Drop(s, n), Append(g, Take(s, n)))
         IN  IF m.ok THEN m ELSE TryLens(n + step, step, run, items, s, g)

\* pattern.match(s): the first successful match in priority order
MatchItems(items, s, g) ==
    IF items = <<>> THEN [ok |-> TRUE, groups |-> g]
    ELSE LET it   == Head(items)
             rest == Tail(items)
         IN  CASE it.kind = "lit" ->
                    IF StartsWith(s, it.alts[1])
                    THEN MatchItems(rest, Drop(s, Len(it.alts[1])), g)
                    ELSE NoMatch
               [] it.kind = "opt" -> TryAlts(it.alts, rest, s, g)
               [] it.kind = "tok" ->
                    IF it.lazy
                    THEN TryLens(1, 1, TokRun(s), rest, s, g)
                    ELSE TryLens(TokRun(s), -1, TokRun(s), rest, s, g)
               [] OTHER ->
                    \* '$': the end of the string, or just before a final newline
                    IF s = <<>> \/ s = <<"\n">>
                    THEN MatchItems(rest, s, g)
                    ELSE NoMatch

\* GITHUB_URL_PATTERN with a greedy name group ('+' for '+?')
GITHUB_URL_PATTERN_GreedyName ==
    << Optional(<<<<"h", "t", "t", "p", "s", ":", "/", "/">>, <<"h", "t", "t", "p", ":", "/", "/">>>>),
       Optional(<<<<"w", "w", "w", ".">>>>),
       Lit(<<"g", "i", "t", "h", "u", "b", ".", "c", "o", "m", "/">>),
       Token(FALSE), Lit(<<"/">>), Token(FALSE),
       Optional(<<<<".", "g", "i", "t">>>>), Optional(<<<<"/">>>>), EndAnchor >>

\* GITHUB_URL_PATTERN without the '/' that ends the host
GITHUB_URL_PATTERN_OpenHost ==
    << Optional(<<<<"h", "t", "t", "p", "s", ":", "/", "/">>, <<"h", "t", "t", "p", ":", "/", "/">>>>),
       Optional(<<<<"w", "w", "w", ".">>>>),
       Lit(<<"g", "i", "t", "h", "u", "b", ".", "c", "o", "m">>),
       Token(FALSE), Lit(<<"/">>), Token(TRUE),
       Optional(<<<<".", "g", "i", "t">>>>), Optional(<<<<"/">>>>), EndAnchor >>

\* ^(?:https?://)?(?:www\.)?github\.com/([a-zA-Z0-9_.-]+)/([a-zA-Z0-9_.-]+?)(?:\.git)?/?$
GITHUB_URL_PATTERN ==
    << Optional(<<<<"h", "t", "t", "p", "s", ":", "/", "/">>, <<"h", "t", "t", "p", ":", "/", "/">>>>),
       Optional(<<<<"w", "w", "w", ".">>>>),
       Lit(<<"g", "i", "t", "h", "u", "b", ".", "c", "o", "m", "/">>),
       Token(FALSE), Lit(<<"/">>), Token(TRUE),
       Optional(<<<<".", "g", "i", "t">>>>), Optional(<<<<"/">>>>), EndAnchor >>

\* ^git@github\.com:([a-zA-Z0-9_.-]+)/([a-zA-Z0-9_.-]+?)(?:\.git)?$
GITHUB_SSH_PATTERN ==
    << Lit(<<"g", "i", "t", "@", "g", "i", "t", "h", "u", "b", ".", "c", "o", "m", ":">>),
       Token(FALSE), Lit(<<"/">>), Token(TRUE),
       Optional(<<<<".", "g", "i", "t">>>>), EndAnchor >>

\* OWNER_REPO_PATTERN without the closing '$'
OWNER_REPO_PATTERN_NoEnd ==
    << Token(FALSE), Lit(<<"/">>), Token(FALSE) >>

\* ^([a-zA-Z0-9_.-]+)/([a-zA-Z0-9_.-]+)$
OWNER_REPO_PATTERN ==
    << Token(FALSE), Lit(<<"/">>), Token(FALSE), EndAnchor >>

(***************************************************************************)
(* _parse_repo_info                                                        *)
(***************************************************************************)
\* Optional[str]: None or a string
None   == [isNone |-> TRUE, s |-> <<>>]
Str(x) == [isNone |-> FALSE, s |-> x]

\* str.isspace for one character
IsSpace(ch) == Ord(ch) \in {9, 10, 11, 12, 13, 28, 29, 30, 31, 32}

RECURSIVE lstrip(_)
lstrip(s) == IF s # <<>> /\ IsSpace(Head(s)) THEN lstrip(Tail(s)) ELSE s

RECURSIVE rstrip(_)
rstrip(s) ==
    IF s # <<>> /\ IsSpace(s[Len(s)]) THEN rstrip(SubSeq(s, 1, Len(s) - 1)) ELSE s

\* strip that removes leading whitespace only
stripLeft(s) == lstrip(s)

\* str.strip()
strip(s) == rstrip(lstrip(s))

\* _parse_repo_info(repo_url): the pair (owner, repo_name)
ParseRepoInfo(url) ==
    IF url.isNone THEN [owner |-> None, name |-> None]
    ELSE LET u  == strip(url.s)
             m1 == MatchItems(GITHUB_URL_PATTERN, u, <<>>)
             m2 == MatchItems(GITHUB_SSH_PATTERN, u, <<>>)
             m3 == MatchItems(OWNER_REPO_PATTERN, u, <<>>)
         IN  IF m1.ok THEN [owner |-> Str(m1.groups[1]), name |-> Str(m1.groups[2])]
             ELSE IF m2.ok THEN [owner |-> Str(m2.groups[1]), name |-> Str(m2.groups[2])]
             ELSE IF m3.ok THEN [owner |-> Str(m3.groups[1]), name |-> Str(m3.groups[2])]
             ELSE [owner |-> None, name |-> None]

(***************************************************************************)
(* Inputs.                                                                 *)
(***************************************************************************)
SeqsUpTo(S, n) == UNION {[1..k -> S] : k \in 0..n}

\* segments a generated target_dir is made of
TargetSegs ==
    { <<>>, <<".">>, <<".", ".">>, <<"w">>, <<"w", "e">>, <<"w", ".", "e">> }

\* target_dir arguments
Targets == { Join(segs, sep) : segs \in SeqsUpTo(TargetSegs, MaxTargetSegs) }

\* base_dir arguments: absolute, the root, two leading slashes, nested,
\* relative and empty
Bases ==
    { <<"/", "w">>, <<"/">>, <<"/", "/", "w">>, <<"/", "w", "/", "w", "e">>, <<"w">>, <<>> }

\* current directories of the process
Cwds == { <<"/">>, <<"/", "c">> }

\* what a generated repository reference begins with: nothing, the HTTPS
\* and SSH prefixes, and prefixes that carry github.com elsewhere than as the
\* host (spoofed subdomain, before an '@', in the path, in a query string)
\* or with the wrong separator, and one with whitespace inside
Prefixes ==
    { <<>>,
      <<"o", " ">>,
      <<"g", "i", "t", "h", "u", "b", ".", "c", "o", "m", "/">>,
      <<"w", "w", "w", ".", "g", "i", "t", "h", "u", "b", ".", "c", "o", "m", "/">>,
      <<"h", "t", "t", "p", "s", ":", "/", "/", "g", "i", "t", "h", "u", "b", ".", "c", "o", "m", "/">>,
      <<"h", "t", "t", "p", ":", "/", "/", "g", "i", "t", "h", "u", "b", ".", "c", "o", "m", "/">>,
      <<"h", "t", "t", "p", "s", ":", "/", "/", "w", "w", "w", ".", "g", "i", "t", "h", "u", "b", ".", "c", "o", "m", "/">>,
      <<"g", "i", "t", "@", "g", "i", "t", "h", "u", "b", ".", "c", "o", "m", ":">>,
      <<"h", "t", "t", "p", "s", ":", "/", "/", "g", "i", "t", "h", "u", "b", ".", "c", "o", "m", ".", "e", "v", "i", "l", ".", "c", "o", "m", "/">>,
      <<"h", "t", "t", "p", "s", ":", "/", "/", "g", "i", "t", "h", "u", "b", ".", "c", "o", "m", "@", "e", "v", "i", "l", ".", "c", "o", "m", "/">>,
      <<"h", "t", "t", "p", "s", ":", "/", "/", "e", "v", "i", "l", ".", "c", "o", "m", "/", "g", "i", "t", "h", "u", "b", ".", "c", "o", "m", "/">>,
      <<"h", "t", "t", "p", "s", ":", "/", "/", "e", "v", "i", "l", ".", "c", "o", "m", "/", "p", "?", "r", "e", "d", "i", "r", "e", "c", "t", "=", "g", "i", "t", "h", "u", "b", ".", "c", "o", "m", "/">>,
      <<"g", "i", "t", "h", "u", "b", ".", "c", "o", "m", ".", "e", "v", "i", "l", ".", "c", "o", "m", "/">>,
      <<"g", "i", "t", "@", "g", "i", "t", "h", "u", "b", ".", "c", "o", "m", "/">> }

\* segments of a generated repository reference
RepoSegs == { <<"o">>, <<"r", ".", "g", "i", "t">>, <<".", ".">>, <<"g", "i", "t", "h", "u", "b", ".", "c", "o", "m">> }

\* whitespace before a generated reference
Spaces == { <<>>, <<" ">> }

\* whitespace after a generated reference
Trails == { <<>>, <<" ">>, <<"\n">> }

\* the whitespace around a generated reference: none, after it, or on both
\* sides
Margins == { m \in Spaces \X Trails : m[1] = <<>> \/ m[2] = <<" ">> }

NoRef ==
    [none |-> TRUE, lead |-> <<>>, prefix |-> <<>>, segs |-> <<>>,
     git |-> FALSE, slash |-> FALSE, trail |-> <<>>]

\* the generated references: None, or whitespace, a prefix, segments joined
\* by '/', an optional '.git', an optional '/', whitespace
Refs ==
    {NoRef} \cup
    { [none |-> FALSE, lead |-> m[1], prefix |-> p, segs |-> sg,
       git |-> gt, slash |-> sl, trail |-> m[2]] :
        m \in Margins, p \in Prefixes,
        sg \in SeqsUpTo(RepoSegs, MaxRepoSegs),
        gt \in BOOLEAN, sl \in BOOLEAN }

\* the string a reference stands for
Render(r) ==
    IF r.none THEN None
    ELSE Str(r.lead \o r.prefix \o Join(r.segs, sep)
             \o (IF r.git THEN <<".", "g", "i", "t">> ELSE <<>>)
             \o (IF r.slash THEN <<"/">> ELSE <<>>)
             \o r.trail)

(***************************************************************************)
(* State machine.  A run draws the arguments of one call and applies the   *)
(* function to them.                                                       *)
(***************************************************************************)
NoResult == [path |-> <<>>, error |-> NoError]
NoParse  == [owner |-> None, name |-> None]

\* no tool is being called
NoCall == [tool |-> "none"]
NoFs   == [ws |-> FALSE, entries |-> <<>>]
NoEnv  == [available |-> FALSE, token |-> None]
NoRet  == [returned |-> FALSE]

ToolsIdle ==
    /\ call = NoCall
    /\ fs = NoFs
    /\ env = NoEnv
    /\ trace = <<>>
    /\ ret = NoRet

\* the path validator: arguments and process state before the call
InitPath ==
    /\ pc = "start"
    /\ cwd \in Cwds
    /\ target_dir \in Targets
    /\ base_dir \in Bases
    /\ result = NoResult
    /\ ref = NoRef
    /\ repo_url = None
    /\ parsed = NoParse
    /\ earlier = NoResult
    /\ ToolsIdle

\* full_path, error = _sanitize_path(target_dir, base_dir)
CallSanitizePath ==
    /\ pc = "start"
    /\ result' = SanitizePath(target_dir, base_dir, cwd)
    /\ pc' = "done"
    /\ UNCHANGED <<cwd, target_dir, base_dir, ref, repo_url, parsed, earlier>>
    /\ UNCHANGED toolVars

NextPath == CallSanitizePath

SpecPath == InitPath /\ [][NextPath]_vars

\* the process changes its current directory (os.chdir) after a call; the
\* result of that call is kept for comparison
Chdir ==
    /\ pc = "done"
    /\ \E d \in Cwds \ {cwd} : cwd' = d
    /\ earlier' = result
    /\ pc' = "moved"
    /\ UNCHANGED <<target_dir, base_dir, result, ref, repo_url, parsed>>
    /\ UNCHANGED toolVars

\* a second call of _sanitize_path with the same two arguments
CallSanitizePathAgain ==
    /\ pc = "moved"
    /\ result' = SanitizePath(target_dir, base_dir, cwd)
    /\ pc' = "again"
    /\ UNCHANGED <<cwd, target_dir, base_dir, ref, repo_url, parsed, earlier>>
    /\ UNCHANGED toolVars

NextPathTwice ==
    \/ CallSanitizePath
    \/ Chdir
    \/ CallSanitizePathAgain

\* two calls with the same arguments in one process
SpecPathTwice == InitPath /\ [][NextPathTwice]_vars

\* the repository parser: the argument before the call
InitRepo ==
    /\ pc = "start"
    /\ cwd = <<"/">>
    /\ target_dir = <<>>
    /\ base_dir = <<"/", "w">>
    /\ result = NoResult
    /\ ref \in Refs
    /\ repo_url = Render(ref)
    /\ parsed = NoParse
    /\ earlier = NoResult
    /\ ToolsIdle

\* owner, repo_name = _parse_repo_info(repo_url)
CallParseRepoInfo ==
    /\ pc = "start"
    /\ parsed' = ParseRepoInfo(repo_url)
    /\ pc' = "done"
    /\ UNCHANGED <<cwd, target_dir, base_dir, result, ref, repo_url, earlier>>
    /\ UNCHANGED toolVars

NextRepo == CallParseRepoInfo

SpecRepo == InitRepo /\ [][NextRepo]_vars

(***************************************************************************)
(* The Git tools of git_tools.py.  A handler is an operator from the call, *)
(* the workspace, the current directory and the filesystem to the set of   *)
(* its possible runs, one for each outcome of the subprocesses it starts.  *)
(* A run is the sequence of calls the handler made (trace) and the record  *)
(* it returned (ret).                                                      *)
(***************************************************************************)
\* the truth value of an Optional[str]: None and '' are falsy
Falsy(x) == x.isNone \/ x.s = <<>>

\* str.rstrip(c) for the single character c
RECURSIVE rstripChars(_, _)
rstripChars(s, c) ==
    IF s # <<>> /\ s[Len(s)] = c THEN rstripChars(Take(s, Len(s) - 1), c)
    ELSE s

\* sub in s
Contains(s, sub) ==
    \E i \in 0..(Len(s) - Len(sub)) : SubSeq(s, i + 1, i + Len(sub)) = sub

Digits == <<"0", "1", "2", "3", "4", "5", "6", "7", "8", "9">>

\* str(n) of a non-negative int
RECURSIVE IntStr(_)
IntStr(n) ==
    IF n < 10 THEN <<Digits[n + 1]>>
    ELSE IntStr(n \div 10) \o <<Digits[(n % 10) + 1]>>

\* what subprocess.run can do: exit with a return code and output, run into
\* the timeout, or raise (stderr then holds str(e))
Outcomes ==
    { [kind |-> "exit", code |-> 0, stdout |-> <<" ", "M", " ", "a", "\n">>, stderr |-> <<>>],
      [kind |-> "exit", code |-> 1, stdout |-> <<>>, stderr |-> <<"e">>],
      [kind |-> "exit", code |-> 1, stdout |-> <<"n", "o", "t", "h", "i", "n", "g", " ", "t", "o", " ", "c", "o", "m", "m", "i", "t">>,
       stderr |-> <<>>],
      [kind |-> "timeout", code |-> 0, stdout |-> <<>>, stderr |-> <<>>],
      [kind |-> "exception", code |-> 0, stdout |-> <<>>, stderr |-> <<"e">>] }

\* _run_git_command without its except clauses: every outcome is read as a
\* finished process
RunResultExitOnly(o) ==
    [stdout |-> o.stdout, stderr |-> o.stderr, return_code |-> o.code,
     success |-> o.code = 0]

\* the record _run_git_command returns for the outcome o
RunResult(o) ==
    IF o.kind = "exit"
    THEN [stdout |-> o.stdout, stderr |-> o.stderr, return_code |-> o.code,
          success |-> o.code = 0]
    ELSE IF o.kind = "timeout"
    THEN [stdout |-> <<>>,
          stderr |-> <<"C", "o", "m", "m", "a", "n", "d", " ", "t", "i", "m", "e", "d", " ", "o", "u", "t", " ", "a", "f", "t", "e", "r", " ", "3", "0", "0", " ", "s", "e", "c", "o", "n", "d", "s">>,
          return_code |-> -1, success |-> FALSE]
    ELSE [stdout |-> <<>>, stderr |-> o.stderr, return_code |-> -1,
          success |-> FALSE]

\* _run_git_command(args, cwd=dir) with outcome o: the subprocess runs
\* ["git"] + args in (cwd or DEFAULT_WORKSPACE_DIR)
RunGitCommand(args, dir, ws, o) ==
    [op |-> "git", args |-> args,
     path |-> IF Falsy(dir) THEN ws ELSE dir.s,
     res |-> RunResult(o)]

\* a call on the filesystem (os.path.exists, os.path.isdir, os.listdir,
\* os.makedirs) and its value
Probe(op, p, v) == [op |-> op, args |-> <<>>, path |-> p, res |-> [value |-> v]]

\* the paths that exist: the workspace directory and its entries
ExistingPaths(f, ws, wd) ==
    IF ~f.ws THEN {}
    ELSE {abspath(ws, wd)}
         \cup { abspath(join(ws, f.entries[i].name), wd) :
                    i \in DOMAIN f.entries }
         \cup { abspath(join(join(ws, f.entries[i].name), <<".", "g", "i", "t">>), wd) :
                    i \in { j \in DOMAIN f.entries : f.entries[j].git } }

\* os.path.exists(p)
exists(p, f, ws, wd) == abspath(p, wd) \in ExistingPaths(f, ws, wd)

\* json.dumps({"success": False, "error": error})
Fail(error) ==
    [returned |-> TRUE, success |-> FALSE, error |-> error, path |-> None,
     info |-> [tool |-> "none"]]

\* json.dumps({"success": True, "path": path, ...})
Ok(path, info) ==
    [returned |-> TRUE, success |-> TRUE, error |-> NoError, path |-> path,
     info |-> info]

\* an error text with its interpolated part
Err(text, arg) == [none |-> FALSE, text |-> text, arg |-> arg]

\* result["stderr"] or result["stdout"]
StderrOrStdout(res) ==
    Err("", IF res.stderr # <<>> THEN res.stderr ELSE res.stdout)

\* the loop of _get_default_repo_path over os.listdir(DEFAULT_WORKSPACE_DIR)
RECURSIVE ScanEntries(_, _)
ScanEntries(entries, ws) ==
    IF entries = <<>> THEN [value |-> None, trace |-> <<>>]
    ELSE LET e          == Head(entries)
             entry_path == join(ws, e.name)
             git_dir    == join(entry_path, <<".", "g", "i", "t">>)
             rest       == ScanEntries(Tail(entries), ws)
         IN  IF ~e.dir
             THEN [rest EXCEPT !.trace =
                       <<Probe("os.path.isdir", entry_path, FALSE)>> \o @]
             ELSE IF e.git
             THEN [value |-> Str(entry_path),
                   trace |-> <<Probe("os.path.isdir", entry_path, TRUE),
                               Probe("os.path.exists", git_dir, TRUE)>>]
             ELSE [rest EXCEPT !.trace =
                       <<Probe("os.path.isdir", entry_path, TRUE),
                         Probe("os.path.exists", git_dir, FALSE)>> \o @]

\* _get_default_repo_path(): the first entry of the workspace that is a
\* directory holding '.git', or None
GetDefaultRepoPath(f, ws) ==
    IF ~f.ws
    THEN [value |-> None, trace |-> <<Probe("os.path.exists", ws, FALSE)>>]
    ELSE LET scan == ScanEntries(f.entries, ws)
         IN  [value |-> scan.value,
              trace |-> <<Probe("os.path.exists", ws, TRUE),
                          Probe("os.listdir", ws, TRUE)>> \o scan.trace]

\* path = repo_path or _get_default_repo_path() or DEFAULT_WORKSPACE_DIR
RepoPathOrWorkspace(repo_path, f, ws) ==
    IF ~Falsy(repo_path) THEN [value |-> repo_path, trace |-> <<>>]
    ELSE LET found == GetDefaultRepoPath(f, ws)
         IN  IF found.value.isNone
             THEN [value |-> Str(ws), trace |-> found.trace]
             ELSE found

\* path = repo_path or _get_default_repo_path()
RepoPath(repo_path, f, ws) ==
    IF ~Falsy(repo_path) THEN [value |-> repo_path, trace |-> <<>>]
    ELSE GetDefaultRepoPath(f, ws)

NoRepository == Fail(Err("No repository found. Clone a repository first.", <<>>))

\* lines 127-132 of GitCloneTool.apply: the target directory, derived from
\* the last '/'-segment of repo_url when target_dir is None
CloneTarget(c) ==
    IF ~c.target_dir.isNone THEN c.target_dir.s
    ELSE LET parts     == Split(rstripChars(c.repo_url, sep), sep)
             repo_name == parts[Len(parts)]
         IN  IF EndsWith(repo_name, <<".", "g", "i", "t">>)
             THEN Take(repo_name, Len(repo_name) - 4)
             ELSE repo_name

\* the call of _sanitize_path(target_dir) of line 135 and its result
Validation(target, ws, wd) ==
    [op |-> "_sanitize_path", args |-> <<target>>, path |-> ws,
     res |-> SanitizePath(target, ws, wd)]

\* the steps after the validation with the clone issued whether or not the
\* destination exists
CloneIntoOverwrite(c, full_path, ws, wd, f) ==
    LET present == exists(full_path, f, ws, wd)
        probe   == Probe("os.path.exists", full_path, present)
        clone_args ==
            <<<<"c", "l", "o", "n", "e">>, <<"-", "-", "b", "r", "a", "n", "c", "h">>, c.branch>>
            \o (IF c.depth.isNone THEN <<>>
                ELSE <<<<"-", "-", "d", "e", "p", "t", "h">>, IntStr(c.depth.n)>>)
            \o <<c.repo_url, full_path>>
    IN  UNION {
            LET made  == Probe("os.makedirs", ws, TRUE)
                clone == RunGitCommand(clone_args, Str(ws), ws, o)
            IN  IF clone.res.success
                THEN { [trace |-> <<probe, made, clone,
                            RunGitCommand(<<<<"c", "o", "n", "f", "i", "g">>, <<"u", "s", "e", "r", ".", "e", "m", "a", "i", "l">>,
                                            <<"c", "o", "d", "i", "n", "g", "-", "a", "g", "e", "n", "t", "@", "a", "r", "c", "h", "e", "s", "t", "r", "a", ".", "a", "i">>>>,
                                          Str(full_path), ws, p[1]),
                            RunGitCommand(<<<<"c", "o", "n", "f", "i", "g">>, <<"u", "s", "e", "r", ".", "n", "a", "m", "e">>,
                                            <<"A", "r", "c", "h", "e", "s", "t", "r", "a", " ", "C", "o", "d", "i", "n", "g", " ", "A", "g", "e", "n", "t">>>>,
                                          Str(full_path), ws, p[2])>>,
                         fs |-> [f EXCEPT !.ws = TRUE],
                         ret |-> Ok(Str(full_path),
                                    [tool |-> "git_clone",
                                     branch |-> c.branch])] :
                       p \in Outcomes \X Outcomes }
                ELSE { [trace |-> <<probe, made, clone>>,
                        fs |-> [f EXCEPT !.ws = TRUE],
                        ret |-> Fail(IF clone.res.stderr # <<>>
                                     THEN Err("", clone.res.stderr)
                                     ELSE Err("Clone failed", <<>>))] } :
            o \in Outcomes }

\* lines 142-183 of GitCloneTool.apply: the steps after the validation
CloneInto(c, full_path, ws, wd, f) ==
    LET present == exists(full_path, f, ws, wd)
        probe   == Probe("os.path.exists", full_path, present)
        clone_args ==
            <<<<"c", "l", "o", "n", "e">>, <<"-", "-", "b", "r", "a", "n", "c", "h">>, c.branch>>
            \o (IF c.depth.isNone THEN <<>>
                ELSE <<<<"-", "-", "d", "e", "p", "t", "h">>, IntStr(c.depth.n)>>)
            \o <<c.repo_url, full_path>>
    IN  IF present
        THEN { [trace |-> <<probe>>, fs |-> f,
                ret |-> Fail(Err("Directory already exists: ", full_path))] }
        ELSE UNION {
            LET made  == Probe("os.makedirs", ws, TRUE)
                clone == RunGitCommand(clone_args, Str(ws), ws, o)
            IN  IF clone.res.success
                THEN { [trace |-> <<probe, made, clone,
                            RunGitCommand(<<<<"c", "o", "n", "f", "i", "g">>, <<"u", "s", "e", "r", ".", "e", "m", "a", "i", "l">>,
                                            <<"c", "o", "d", "i", "n", "g", "-", "a", "g", "e", "n", "t", "@", "a", "r", "c", "h", "e", "s", "t", "r", "a", ".", "a", "i">>>>,
                                          Str(full_path), ws, p[1]),
                            RunGitCommand(<<<<"c", "o", "n", "f", "i", "g">>, <<"u", "s", "e", "r", ".", "n", "a", "m", "e">>,
                                            <<"A", "r", "c", "h", "e", "s", "t", "r", "a", " ", "C", "o", "d", "i", "n", "g", " ", "A", "g", "e", "n", "t">>>>,
                                          Str(full_path), ws, p[2])>>,
                         fs |-> [f EXCEPT !.ws = TRUE],
                         ret |-> Ok(Str(full_path),
                                    [tool |-> "git_clone",
                                     branch |-> c.branch])] :
                       p \in Outcomes \X Outcomes }
                ELSE { [trace |-> <<probe, made, clone>>,
                        fs |-> [f EXCEPT !.ws = TRUE],
                        ret |-> Fail(IF clone.res.stderr # <<>>
                                     THEN Err("", clone.res.stderr)
                                     ELSE Err("Clone failed", <<>>))] } :
            o \in Outcomes }

\* GitCloneTool.apply with the existence of the destination probed before
\* the target is validated
GitCloneToolProbeFirst(c, ws, wd, f) ==
    LET target     == CloneTarget(c)
        validation == Validation(target, ws, wd)
        early      == Probe("os.path.exists", join(ws, target),
                            exists(join(ws, target), f, ws, wd))
    IN  IF ~validation.res.error.none
        THEN { [trace |-> <<early, validation>>, fs |-> f,
                ret |-> Fail(validation.res.error)] }
        ELSE { [r EXCEPT !.trace = <<early, validation>> \o @] :
                   r \in CloneInto(c, validation.res.path, ws, wd, f) }

\* GitCloneTool.apply with the verdict of the validation ignored
GitCloneToolAnyTarget(c, ws, wd, f) ==
    LET target     == CloneTarget(c)
        validation == Validation(target, ws, wd)
    IN  { [r EXCEPT !.trace = <<validation>> \o @] :
              r \in CloneInto(c, normpath(join(abspath(ws, wd), target)),
                              ws, wd, f) }

\* GitCloneTool.apply
GitCloneTool(c, ws, wd, f) ==
    LET target     == CloneTarget(c)
        validation == Validation(target, ws, wd)
    IN  IF ~validation.res.error.none
        THEN { [trace |-> <<validation>>, fs |-> f,
                ret |-> Fail(validation.res.error)] }
        ELSE { [r EXCEPT !.trace = <<validation>> \o @] :
                   r \in CloneInto(c, validation.res.path, ws, wd, f) }

\* the files list of GitStatusTool: one entry per non-empty line of
\* stdout.strip().split("\n"), status line[:2].strip() and file line[3:]
StatusFiles(stdout) ==
    LET lines == Split(strip(stdout), "\n")
        kept  == SelectSeq(lines, LAMBDA line : line # <<>>)
    IN  [i \in DOMAIN kept |->
            [status |-> strip(Take(kept[i], 2)), file |-> Drop(kept[i], 3)]]

\* GitStatusTool.apply
GitStatusTool(c, ws, wd, f) ==
    LET repo == RepoPath(c.repo_path, f, ws)
        path == repo.value
    IN  IF path.isNone THEN { [trace |-> repo.trace, ret |-> NoRepository] }
        ELSE { LET status_result ==
                       RunGitCommand(<<<<"s", "t", "a", "t", "u", "s">>, <<"-", "-", "s", "h", "o", "r", "t">>>>, path, ws, o[1])
                   branch_result ==
                       RunGitCommand(<<<<"r", "e", "v", "-", "p", "a", "r", "s", "e">>, <<"-", "-", "a", "b", "b", "r", "e", "v", "-", "r", "e", "f">>, <<"H", "E", "A", "D">>>>,
                                     path, ws, o[2])
                   remote_result ==
                       RunGitCommand(<<<<"s", "t", "a", "t", "u", "s">>, <<"-", "-", "b", "r", "a", "n", "c", "h">>,
                                       <<"-", "-", "p", "o", "r", "c", "e", "l", "a", "i", "n", "=", "v", "2">>>>, path, ws, o[3])
                   files == StatusFiles(status_result.res.stdout)
               IN  [trace |-> repo.trace
                              \o <<status_result, branch_result, remote_result>>,
                    ret |-> IF status_result.res.success
                            THEN Ok(path,
                                    [tool |-> "git_status",
                                     branch |-> IF branch_result.res.success
                                                THEN strip(branch_result.res.stdout)
                                                ELSE <<"u", "n", "k", "n", "o", "w", "n">>,
                                     files |-> files,
                                     is_clean |-> Len(files) = 0,
                                     raw_status |-> status_result.res.stdout])
                            ELSE Fail(Err("", status_result.res.stderr))] :
               o \in [1..3 -> Outcomes] }

\* GitDiffTool.apply
GitDiffTool(c, ws, wd, f) ==
    LET repo == RepoPath(c.repo_path, f, ws)
        path == repo.value
        diff_args ==
            <<<<"d", "i", "f", "f">>>>
            \o (IF c.staged THEN <<<<"-", "-", "s", "t", "a", "g", "e", "d">>>> ELSE <<>>)
            \o (IF ~Falsy(c.file_path) THEN <<<<"-", "-">>, c.file_path.s>> ELSE <<>>)
    IN  IF path.isNone THEN { [trace |-> repo.trace, ret |-> NoRepository] }
        ELSE { LET result_ == RunGitCommand(diff_args, path, ws, o)
               IN  [trace |-> Append(repo.trace, result_),
                    ret |-> IF result_.res.success
                            THEN Ok(path,
                                    [tool |-> "git_diff",
                                     staged |-> c.staged,
                                     diff |-> result_.res.stdout,
                                     has_changes |->
                                         Len(strip(result_.res.stdout)) > 0])
                            ELSE Fail(Err("", result_.res.stderr))] :
               o \in Outcomes }

\* the loop over files with a failing `git add` passed over
RECURSIVE StageFilesKeepGoing(_, _, _)
StageFilesKeepGoing(files, path, ws) ==
    IF files = <<>> THEN { [trace |-> <<>>, ok |-> TRUE, error |-> NoError] }
    ELSE UNION {
        { [r EXCEPT !.trace =
               <<RunGitCommand(<<<<"a", "d", "d">>, Head(files)>>, path, ws, o)>> \o @] :
              r \in StageFilesKeepGoing(Tail(files), path, ws) } :
        o \in Outcomes }

\* the loop of lines 321-327 of GitCommitTool.apply: the runs of staging the
\* files in list order, each ending at the first `git add` that fails
RECURSIVE StageFiles(_, _, _)
StageFiles(files, path, ws) ==
    IF files = <<>> THEN { [trace |-> <<>>, ok |-> TRUE, error |-> NoError] }
    ELSE UNION {
        LET add_result == RunGitCommand(<<<<"a", "d", "d">>, Head(files)>>, path, ws, o)
        IN  IF ~add_result.res.success
            THEN { [trace |-> <<add_result>>, ok |-> FALSE,
                    error |-> Err("Failed to stage ",
                                  Head(files) \o <<":", " ">>
                                  \o add_result.res.stderr)] }
            ELSE { [r EXCEPT !.trace = <<add_result>> \o @] :
                       r \in StageFiles(Tail(files), path, ws) } :
        o \in Outcomes }

\* lines 318-335 of GitCommitTool.apply: the runs of the staging step
Stage(c, path, ws) ==
    IF ~c.files.isNone /\ c.files.s # <<>> THEN StageFiles(c.files.s, path, ws)
    ELSE IF c.all_changes
    THEN { LET add_result == RunGitCommand(<<<<"a", "d", "d">>, <<"-", "A">>>>, path, ws, o)
           IN  [trace |-> <<add_result>>, ok |-> add_result.res.success,
                error |-> IF add_result.res.success THEN NoError
                          ELSE Err("Failed to stage changes: ",
                                   add_result.res.stderr)] :
           o \in Outcomes }
    ELSE { [trace |-> <<>>, ok |-> TRUE, error |-> NoError] }

\* lines 337-362 of GitCommitTool.apply: the runs of the commit step
Commit(c, path, ws) ==
    UNION {
        LET commit_result ==
                RunGitCommand(<<<<"c", "o", "m", "m", "i", "t">>, <<"-", "m">>, c.message>>, path, ws, o)
        IN  IF commit_result.res.success
            THEN { LET hash_result ==
                           RunGitCommand(<<<<"r", "e", "v", "-", "p", "a", "r", "s", "e">>, <<"H", "E", "A", "D">>>>, path, ws, h)
                   IN  [trace |-> <<commit_result, hash_result>>,
                        ret |-> Ok(path,
                                   [tool |-> "git_commit",
                                    message |-> c.message,
                                    commit_hash |->
                                        IF hash_result.res.success
                                        THEN strip(hash_result.res.stdout)
                                        ELSE <<"u", "n", "k", "n", "o", "w", "n">>,
                                    output |-> commit_result.res.stdout])] :
                   h \in Outcomes }
            ELSE { [trace |-> <<commit_result>>,
                    ret |-> IF Contains(commit_result.res.stdout,
                                        <<"n", "o", "t", "h", "i", "n", "g", " ", "t", "o", " ", "c", "o", "m", "m", "i", "t">>)
                            THEN Fail(Err("Nothing to commit - working tree is clean",
                                          <<>>))
                            ELSE Fail(StderrOrStdout(commit_result.res))] } :
        o \in Outcomes }

\* GitCommitTool.apply
GitCommitTool(c, ws, wd, f) ==
    LET repo == RepoPath(c.repo_path, f, ws)
        path == repo.value
    IN  IF path.isNone THEN { [trace |-> repo.trace, ret |-> NoRepository] }
        ELSE UNION {
            IF ~st.ok
            THEN { [trace |-> repo.trace \o st.trace, ret |-> Fail(st.error)] }
            ELSE { [trace |-> repo.trace \o st.trace \o r.trace,
                    ret |-> r.ret] : r \in Commit(c, path, ws) } :
            st \in Stage(c, path, ws) }

\* lines 407-430 of GitPushTool.apply: the push of branch
Push(c, branch, path, ws) ==
    LET push_args ==
            <<<<"p", "u", "s", "h">>>>
            \o (IF c.set_upstream THEN <<<<"-", "u">>>> ELSE <<>>)
            \o (IF c.force THEN <<<<"-", "-", "f", "o", "r", "c", "e">>>> ELSE <<>>)
            \o <<c.remote, branch>>
    IN  { LET result_ == RunGitCommand(push_args, path, ws, o)
          IN  [trace |-> <<result_>>,
               ret |-> IF result_.res.success
                       THEN Ok(path, [tool |-> "git_push",
                                      remote |-> c.remote,
                                      branch |-> branch,
                                      output |-> result_.res.stderr])
                       ELSE Fail(StderrOrStdout(result_.res))] :
          o \in Outcomes }

\* GitPushTool.apply
GitPushTool(c, ws, wd, f) ==
    LET repo == RepoPath(c.repo_path, f, ws)
        path == repo.value
    IN  IF path.isNone THEN { [trace |-> repo.trace, ret |-> NoRepository] }
        ELSE IF ~c.branch.isNone
        THEN { [r EXCEPT !.trace = repo.trace \o @] :
                   r \in Push(c, c.branch.s, path, ws) }
        ELSE UNION {
            LET branch_result ==
                    RunGitCommand(<<<<"r", "e", "v", "-", "p", "a", "r", "s", "e">>, <<"-", "-", "a", "b", "b", "r", "e", "v", "-", "r", "e", "f">>, <<"H", "E", "A", "D">>>>,
                                  path, ws, o)
            IN  IF branch_result.res.success
                THEN { [r EXCEPT !.trace =
                            Append(repo.trace, branch_result) \o @] :
                           r \in Push(c, strip(branch_result.res.stdout),
                                      path, ws) }
                ELSE { [trace |-> Append(repo.trace, branch_result),
                        ret |-> Fail(Err("Could not determine current branch",
                                         <<>>))] } :
            o \in Outcomes }

\* GitCheckoutBranchTool.apply with create tested before branch_exists
GitCheckoutBranchToolCreateFirst(c, ws, wd, f) ==
    LET repo == RepoPath(c.repo_path, f, ws)
        path == repo.value
        Finish(check_result, result_, action) ==
            [trace |-> repo.trace \o <<check_result, result_>>,
             ret |-> IF result_.res.success
                     THEN Ok(path, [tool |-> "git_checkout_branch",
                                    branch |-> c.branch_name,
                                    action |-> action])
                     ELSE Fail(StderrOrStdout(result_.res))]
    IN  IF path.isNone THEN { [trace |-> repo.trace, ret |-> NoRepository] }
        ELSE UNION {
            LET check_result ==
                    RunGitCommand(<<<<"r", "e", "v", "-", "p", "a", "r", "s", "e">>, <<"-", "-", "v", "e", "r", "i", "f", "y">>,
                                    <<"r", "e", "f", "s", "/", "h", "e", "a", "d", "s", "/">> \o c.branch_name>>,
                                  path, ws, o)
            IN  IF ~c.create /\ check_result.res.success
                THEN { Finish(check_result,
                              RunGitCommand(<<<<"c", "h", "e", "c", "k", "o", "u", "t">>, c.branch_name>>,
                                            path, ws, r),
                              "switched to") : r \in Outcomes }
                ELSE IF c.create
                THEN { Finish(check_result,
                              RunGitCommand(
                                  <<<<"c", "h", "e", "c", "k", "o", "u", "t">>, <<"-", "b">>, c.branch_name>>
                                  \o (IF ~Falsy(c.start_point)
                                      THEN <<c.start_point.s>> ELSE <<>>),
                                  path, ws, r),
                              "created and switched to") : r \in Outcomes }
                ELSE { [trace |-> Append(repo.trace, check_result),
                        ret |-> Fail(Err("Branch does not exist. Set create=True to create it.",
                                         c.branch_name))] } :
            o \in Outcomes }

\* GitCheckoutBranchTool.apply
GitCheckoutBranchTool(c, ws, wd, f) ==
    LET repo == RepoPath(c.repo_path, f, ws)
        path == repo.value
        Finish(check_result, result_, action) ==
            [trace |-> repo.trace \o <<check_result, result_>>,
             ret |-> IF result_.res.success
                     THEN Ok(path, [tool |-> "git_checkout_branch",
                                    branch |-> c.branch_name,
                                    action |-> action])
                     ELSE Fail(StderrOrStdout(result_.res))]
    IN  IF path.isNone THEN { [trace |-> repo.trace, ret |-> NoRepository] }
        ELSE UNION {
            LET check_result ==
                    RunGitCommand(<<<<"r", "e", "v", "-", "p", "a", "r", "s", "e">>, <<"-", "-", "v", "e", "r", "i", "f", "y">>,
                                    <<"r", "e", "f", "s", "/", "h", "e", "a", "d", "s", "/">> \o c.branch_name>>,
                                  path, ws, o)
            IN  IF check_result.res.success
                THEN { Finish(check_result,
                              RunGitCommand(<<<<"c", "h", "e", "c", "k", "o", "u", "t">>, c.branch_name>>,
                                            path, ws, r),
                              "switched to") : r \in Outcomes }
                ELSE IF c.create
                THEN { Finish(check_result,
                              RunGitCommand(
                                  <<<<"c", "h", "e", "c", "k", "o", "u", "t">>, <<"-", "b">>, c.branch_name>>
                                  \o (IF ~Falsy(c.start_point)
                                      THEN <<c.start_point.s>> ELSE <<>>),
                                  path, ws, r),
                              "created and switched to") : r \in Outcomes }
                ELSE { [trace |-> Append(repo.trace, check_result),
                        ret |-> Fail(Err("Branch does not exist. Set create=True to create it.",
                                         c.branch_name))] } :
            o \in Outcomes }

(***************************************************************************)
(* Inputs of the Git tools.                                                *)
(***************************************************************************)
\* DEFAULT_WORKSPACE_DIR (absolute or, through WORKSPACE_DIR, relative) with
\* the current directory of the process
Workspaces ==
    { <<<<"/", "w">>, <<"/">>>>, <<<<"w">>, <<"/">>>>, <<<<"w">>, <<"/", "c">>>> }

\* the workspace directory is missing, empty, or holds entries, with or
\* without a repository among them, in the order
\* os.listdir returns them
Filesystems ==
    { [ws |-> FALSE, entries |-> <<>>],
      [ws |-> TRUE, entries |-> <<>>],
      [ws |-> TRUE, entries |-> <<[name |-> <<"w">>, dir |-> TRUE, git |-> TRUE]>>],
      [ws |-> TRUE,
       entries |-> <<[name |-> <<"a">>, dir |-> FALSE, git |-> FALSE],
                     [name |-> <<"w", "e">>, dir |-> TRUE, git |-> FALSE]>>],
      [ws |-> TRUE,
       entries |-> <<[name |-> <<"a">>, dir |-> FALSE, git |-> FALSE],
                     [name |-> <<"w", "e">>, dir |-> TRUE, git |-> FALSE],
                     [name |-> <<"w">>, dir |-> TRUE, git |-> TRUE]>>] }

UrlHeads == { <<"o", "/">>, <<"h", "t", "t", "p", "s", ":", "/", "/", "g", "i", "t", "h", "u", "b", ".", "c", "o", "m", "/", "o", "/">> }
UrlTails == { <<"w">>, <<"w", ".", "g", "i", "t">>, <<"w", "e", "/">>, <<".", ".">>, <<".">>, <<".", "g", "i", "t">>, <<".", ".", ".", "g", "i", "t">> }
CloneUrls == { h \o t : h \in UrlHeads, t \in UrlTails }

CloneTargets ==
    { Str(t) : t \in { <<"w">>, <<>>, <<".">>, <<".", ".">>, <<".", ".", "/", "w", "e">>, <<"/", "w">>,
                       <<"w", "/", "w", "e">>, <<"w", "/", ".", ".", "/", ".", ".">> } }

OptionalDepths == { [isNone |-> TRUE, n |-> 0], [isNone |-> FALSE, n |-> 1] }

RepoPaths ==
    { None, Str(<<>>), Str(<<"/", "w", "/", "w">>), Str(<<"/", "e", "t", "c">>), Str(<<".", ".", "/", "w", "e">>) }

FileNames == { <<"a">>, <<"-", "A">> }

CloneCalls ==
    { [tool |-> "git_clone", repo_url |-> u, branch |-> <<"m", "a", "i", "n">>,
       target_dir |-> None, depth |-> d] :
          u \in CloneUrls, d \in OptionalDepths }
    \cup
    { [tool |-> "git_clone", repo_url |-> u, branch |-> <<"m", "a", "i", "n">>,
       target_dir |-> t, depth |-> [isNone |-> TRUE, n |-> 0]] :
          u \in { <<"o", "/", "w">>, <<"h", "t", "t", "p", "s", ":", "/", "/", "g", "i", "t", "h", "u", "b", ".", "c", "o", "m", "/", "o", "/", ".", ".">> }, t \in CloneTargets }

StatusCalls == { [tool |-> "git_status", repo_path |-> p] : p \in RepoPaths }

DiffCalls ==
    { [tool |-> "git_diff", repo_path |-> p, staged |-> s, file_path |-> fp] :
          p \in RepoPaths, s \in BOOLEAN,
          fp \in { None, Str(<<>>), Str(<<"a">>) } }

CommitCalls ==
    { [tool |-> "git_commit", message |-> <<"m">>, repo_path |-> p,
       files |-> fl, all_changes |-> a] :
          p \in RepoPaths,
          fl \in {None} \cup { Str(s) : s \in SeqsUpTo(FileNames, MaxFiles) },
          a \in BOOLEAN }

PushCalls ==
    { [tool |-> "git_push", repo_path |-> p, remote |-> <<"o", "r", "i", "g", "i", "n">>,
       branch |-> b, set_upstream |-> u, force |-> fo] :
          p \in RepoPaths, b \in { None, Str(<<"b">>) },
          u \in BOOLEAN, fo \in BOOLEAN }

CheckoutCalls ==
    { [tool |-> "git_checkout_branch", branch_name |-> <<"b">>,
       repo_path |-> p, create |-> cr, start_point |-> sp] :
          p \in RepoPaths, cr \in BOOLEAN,
          sp \in { None, Str(<<>>), Str(<<"s">>) } }

GitCalls ==
    CloneCalls \cup StatusCalls \cup DiffCalls \cup CommitCalls
    \cup PushCalls \cup CheckoutCalls

(***************************************************************************)
(* One call of a Git tool: base_dir holds DEFAULT_WORKSPACE_DIR.           *)
(***************************************************************************)
InitGit ==
    /\ pc = "start"
    /\ \E w \in Workspaces : base_dir = w[1] /\ cwd = w[2]
    /\ target_dir = <<>>
    /\ result = NoResult
    /\ ref = NoRef
    /\ repo_url = None
    /\ parsed = NoParse
    /\ earlier = NoResult
    /\ call \in GitCalls
    /\ fs \in Filesystems
    /\ env = NoEnv
    /\ trace = <<>>
    /\ ret = NoRet

\* the tool returns after the run r
Return(r) ==
    /\ trace' = r.trace
    /\ ret' = r.ret
    /\ pc' = "done"
    /\ UNCHANGED <<cwd, target_dir, base_dir, result, ref, repo_url, parsed,
                   earlier, call, env>>

CallGitClone ==
    /\ pc = "start"
    /\ call.tool = "git_clone"
    /\ \E r \in GitCloneTool(call, base_dir, cwd, fs) :
           Return(r) /\ fs' = r.fs

CallGitStatus ==
    /\ pc = "start"
    /\ call.tool = "git_status"
    /\ \E r \in GitStatusTool(call, base_dir, cwd, fs) :
           Return(r) /\ UNCHANGED fs

CallGitDiff ==
    /\ pc = "start"
    /\ call.tool = "git_diff"
    /\ \E r \in GitDiffTool(call, base_dir, cwd, fs) :
           Return(r) /\ UNCHANGED fs

CallGitCommit ==
    /\ pc = "start"
    /\ call.tool = "git_commit"
    /\ \E r \in GitCommitTool(call, base_dir, cwd, fs) :
           Return(r) /\ UNCHANGED fs

CallGitPush ==
    /\ pc = "start"
    /\ call.tool = "git_push"
    /\ \E r \in GitPushTool(call, base_dir, cwd, fs) :
           Return(r) /\ UNCHANGED fs

CallGitCheckoutBranch ==
    /\ pc = "start"
    /\ call.tool = "git_checkout_branch"
    /\ \E r \in GitCheckoutBranchTool(call, base_dir, cwd, fs) :
           Return(r) /\ UNCHANGED fs

NextGit ==
    \/ CallGitClone
    \/ CallGitStatus
    \/ CallGitDiff
    \/ CallGitCommit
    \/ CallGitPush
    \/ CallGitCheckoutBranch

SpecGit == InitGit /\ [][NextGit]_vars

(***************************************************************************)
(* _run_git_command on its own: one call, one outcome of the subprocess.   *)
(***************************************************************************)

\* what subprocess.run can do: the process ends with any return code
\* (negative when a signal ended it) and any output, the timeout expires, or
\* another exception is raised, whose text may be empty
RunOutcomes ==
    { [kind |-> "exit", code |-> n, stdout |-> out, stderr |-> err] :
          n \in {0, 1, 128, -1, -9}, out \in {<<>>, <<" ", "M", " ", "a", "\n">>},
          err \in {<<>>, <<"e">>} }
    \cup { [kind |-> "timeout", code |-> 0, stdout |-> <<>>, stderr |-> <<>>] }
    \cup { [kind |-> "exception", code |-> 0, stdout |-> <<>>, stderr |-> err] :
               err \in {<<>>, <<"e">>} }

RunCalls ==
    { [tool |-> "_run_git_command", args |-> a, cwd |-> d] :
          a \in { <<>>, <<<<"s", "t", "a", "t", "u", "s">>>>, <<<<"s", "t", "a", "t", "u", "s">>, <<"-", "-", "s", "h", "o", "r", "t">>>> },
          d \in { None, Str(<<>>), Str(<<"/", "w", "/", "w">>) } }

InitRun ==
    /\ pc = "start"
    /\ \E w \in Workspaces : base_dir = w[1] /\ cwd = w[2]
    /\ target_dir = <<>>
    /\ result = NoResult
    /\ ref = NoRef
    /\ repo_url = None
    /\ parsed = NoParse
    /\ earlier = NoResult
    /\ call \in RunCalls
    /\ fs = NoFs
    /\ env \in { [subprocess |-> o] : o \in RunOutcomes }
    /\ trace = <<>>
    /\ ret = NoRet

CallRunGitCommand ==
    /\ pc = "start"
    /\ LET run == RunGitCommand(call.args, call.cwd, base_dir, env.subprocess)
       IN  /\ trace' = <<run>>
           /\ ret' = [returned |-> TRUE, value |-> run.res]
    /\ pc' = "done"
    /\ UNCHANGED <<cwd, target_dir, base_dir, result, ref, repo_url, parsed,
                   earlier, call, fs, env>>

NextRun == CallRunGitCommand

SpecRun == InitRun /\ [][NextRun]_vars

(***************************************************************************)
(* The GitHub tools of github_tools.py.  env holds GITHUB_AVAILABLE and    *)
(* GITHUB_TOKEN; a run is the sequence of calls the handler made and the   *)
(* record it returned.                                                     *)
(***************************************************************************)
\* the exceptions the client raises: data is None, a dict with or without a
\* 'message' key, or a string; str is str(e)
ApiErrors ==
    { [kind |-> "none", has |-> FALSE, value |-> <<>>, str |-> <<"4", "0", "4">>],
      [kind |-> "dict", has |-> TRUE, value |-> <<"N", "o", "t", " ", "F", "o", "u", "n", "d">>, str |-> <<"4", "0", "4">>],
      [kind |-> "dict", has |-> FALSE, value |-> <<>>, str |-> <<"4", "0", "4">>],
      [kind |-> "str", has |-> FALSE, value |-> <<"x">>, str |-> <<"4", "0", "4">>],
      [kind |-> "str", has |-> FALSE, value |-> <<>>, str |-> <<"4", "0", "4">>] }

\* what a call on the client can do: return (count is issue.comments of a
\* returned issue), raise GithubException, or raise another exception
ApiOutcomes ==
    { [kind |-> "ok", count |-> n, e |-> [kind |-> "none", has |-> FALSE,
                                          value |-> <<>>, str |-> <<>>]] :
          n \in {0, 2} }
    \cup { [kind |-> "GithubException", count |-> 0, e |-> e] : e \in ApiErrors }
    \cup { [kind |-> "Exception", count |-> 0,
            e |-> [kind |-> "none", has |-> FALSE, value |-> <<>>,
                   str |-> <<"b", "o", "o", "m">>]] }

\* _get_github_error_message(e)
GetGithubErrorMessage(e) ==
    IF e.kind = "none" THEN e.str
    ELSE IF e.kind = "dict" THEN (IF e.has THEN e.value ELSE e.str)
    ELSE IF e.value # <<>> THEN e.value ELSE e.str

\* a call on the GitHub client with its outcome
ApiCall(op, args, o) == [op |-> op, args |-> args, path |-> <<>>, res |-> o]

\* the two except clauses of the tools
ApiFail(o) ==
    IF o.kind = "GithubException"
    THEN Fail(Err("GitHub API error: ", GetGithubErrorMessage(o.e)))
    ELSE Fail(Err("", o.e.str))

\* lines 153-158: owner, repo_name = _parse_repo_info(repo) returned p; the
\* tool stops when either is None
ParseCheck(c, e, p) ==
    LET called == <<ApiCall("Github", <<e.token.s>>, [value |-> TRUE]),
                    [op |-> "_parse_repo_info", args |-> <<c.repo>>,
                     path |-> <<>>, res |-> p]>>
    IN  IF p.owner.isNone \/ p.name.isNone
        THEN [stop |-> TRUE, trace |-> called, parsed |-> p,
              ret |-> Fail(Err("Could not parse repository. Provide repo in 'owner/repo' format.",
                               <<>>))]
        ELSE [stop |-> FALSE, trace |-> called, parsed |-> p, ret |-> NoRet]

\* the checks of lines 140-158 with the repository parsed before the client
\* is built
GithubChecksParseFirst(c, e) ==
    IF ~e.available
    THEN [stop |-> TRUE, trace |-> <<>>, parsed |-> NoParse,
          ret |-> Fail(Err("PyGithub is not installed. Please install it with: pip install PyGithub",
                           <<>>))]
    ELSE LET s == ParseCheck(c, e, ParseRepoInfo(c.repo))
         IN  IF ~s.stop /\ Falsy(e.token)
             THEN [stop |-> TRUE, trace |-> <<>>, parsed |-> NoParse,
                   ret |-> Fail(Err("GITHUB_TOKEN environment variable not set. Please configure it.",
                                    <<>>))]
             ELSE s

\* the checks of lines 140-158, the same in the three tools: PyGithub is
\* available, _get_github_client() built a client from GITHUB_TOKEN, and
\* _parse_repo_info(repo) returned an owner and a name
GithubChecks(c, e) ==
    IF ~e.available
    THEN [stop |-> TRUE, trace |-> <<>>, parsed |-> NoParse,
          ret |-> Fail(Err("PyGithub is not installed. Please install it with: pip install PyGithub",
                           <<>>))]
    ELSE IF Falsy(e.token)
    THEN [stop |-> TRUE, trace |-> <<>>, parsed |-> NoParse,
          ret |-> Fail(Err("GITHUB_TOKEN environment variable not set. Please configure it.",
                           <<>>))]
    ELSE ParseCheck(c, e, ParseRepoInfo(c.repo))

\* a run that ends with the call `last` on the client, returning ret when
\* the call returns
EndWith(calls, last, success) ==
    [trace |-> Append(calls, last),
     ret |-> IF last.res.kind = "ok" THEN success ELSE ApiFail(last.res)]

\* the try block of GithubCreatePrTool.apply with the repo string handed to
\* get_repo as given
CreatePullRawRepo(c, s) ==
    IF s.stop THEN { [trace |-> s.trace, ret |-> s.ret] }
    ELSE UNION {
        IF o.kind # "ok"
        THEN { EndWith(s.trace, ApiCall("get_repo", <<c.repo.s>>, o), NoRet) }
        ELSE { EndWith(Append(s.trace, ApiCall("get_repo", <<c.repo.s>>, o)),
                       ApiCall("create_pull",
                               <<c.title, c.body, c.head, c.base>>, q),
                       Ok(None, [tool |-> "github_create_pr",
                                 head |-> c.head, base |-> c.base])) :
                   q \in ApiOutcomes } :
        o \in ApiOutcomes }

\* lines 154-190 of GithubCreatePrTool.apply: after the checks s,
\* client.get_repo(f"{owner}/{repo_name}") and gh_repo.create_pull(...)
CreatePull(c, s) ==
    IF s.stop THEN { [trace |-> s.trace, ret |-> s.ret] }
    ELSE UNION {
        IF o.kind # "ok"
        THEN { EndWith(s.trace,
                       ApiCall("get_repo",
                               <<s.parsed.owner.s \o <<"/">> \o s.parsed.name.s>>,
                               o),
                       NoRet) }
        ELSE { EndWith(Append(s.trace,
                              ApiCall("get_repo",
                                      <<s.parsed.owner.s \o <<"/">>
                                        \o s.parsed.name.s>>, o)),
                       ApiCall("create_pull",
                               <<c.title, c.body, c.head, c.base>>, q),
                       Ok(None, [tool |-> "github_create_pr",
                                 head |-> c.head, base |-> c.base])) :
                   q \in ApiOutcomes } :
        o \in ApiOutcomes }

\* GithubCreatePrTool.apply
GithubCreatePrTool(c, e) == CreatePull(c, GithubChecks(c, e))

\* lines 224-266 of GithubListPrsTool.apply: after the checks s,
\* client.get_repo(f"{owner}/{repo_name}") and gh_repo.get_pulls(...)
GetPulls(c, s) ==
    IF s.stop THEN { [trace |-> s.trace, ret |-> s.ret] }
    ELSE UNION {
        IF o.kind # "ok"
        THEN { EndWith(s.trace,
                       ApiCall("get_repo",
                               <<s.parsed.owner.s \o <<"/">> \o s.parsed.name.s>>,
                               o),
                       NoRet) }
        ELSE { EndWith(Append(s.trace,
                              ApiCall("get_repo",
                                      <<s.parsed.owner.s \o <<"/">>
                                        \o s.parsed.name.s>>, o)),
                       ApiCall("get_pulls", <<c.state>>, q),
                       Ok(None, [tool |-> "github_list_prs",
                                 repo |-> s.parsed.owner.s \o <<"/">>
                                          \o s.parsed.name.s,
                                 state |-> c.state])) :
                   q \in ApiOutcomes } :
        o \in ApiOutcomes }

\* GithubListPrsTool.apply
GithubListPrsTool(c, e) == GetPulls(c, GithubChecks(c, e))

\* lines 310-346 of GithubGetIssueTool.apply: gh_repo.get_issue(...) on the
\* repository that `calls` ends with and, when comments are asked for and
\* the issue has some, issue.get_comments()
GetIssue(c, calls) ==
    UNION {
        IF q.kind = "ok" /\ c.include_comments /\ q.count > 0
        THEN { EndWith(Append(calls,
                              ApiCall("get_issue",
                                      <<IntStr(c.issue_number)>>, q)),
                       ApiCall("get_comments", <<>>, r),
                       Ok(None, [tool |-> "github_get_issue",
                                 number |-> c.issue_number])) :
                   r \in ApiOutcomes }
        ELSE { EndWith(calls,
                       ApiCall("get_issue", <<IntStr(c.issue_number)>>, q),
                       Ok(None, [tool |-> "github_get_issue",
                                 number |-> c.issue_number])) } :
        q \in ApiOutcomes }

\* lines 302-357 of GithubGetIssueTool.apply: after the checks s,
\* client.get_repo(f"{owner}/{repo_name}") and the calls on the issue
GetRepoIssue(c, s) ==
    IF s.stop THEN { [trace |-> s.trace, ret |-> s.ret] }
    ELSE UNION {
        IF o.kind # "ok"
        THEN { EndWith(s.trace,
                       ApiCall("get_repo",
                               <<s.parsed.owner.s \o <<"/">> \o s.parsed.name.s>>,
                               o),
                       NoRet) }
        ELSE GetIssue(c, Append(s.trace,
                                ApiCall("get_repo",
                                        <<s.parsed.owner.s \o <<"/">>
                                          \o s.parsed.name.s>>, o))) :
        o \in ApiOutcomes }

\* GithubGetIssueTool.apply
GithubGetIssueTool(c, e) == GetRepoIssue(c, GithubChecks(c, e))

(***************************************************************************)
(* Inputs of the GitHub tools.                                             *)
(***************************************************************************)
GithubRepos ==
    { None, Str(<<>>), Str(<<"o", "/", "r">>), Str(<<" ", "o", "/", "r", " ">>), Str(<<"o", "/", "r", ".", "g", "i", "t">>),
      Str(<<"h", "t", "t", "p", "s", ":", "/", "/", "g", "i", "t", "h", "u", "b", ".", "c", "o", "m", "/", "o", "/", "r", ".", "g", "i", "t">>), Str(<<"h", "t", "t", "p", "s", ":", "/", "/", "g", "i", "t", "h", "u", "b", ".", "c", "o", "m", "/", "o", "/", "r", "/">>),
      Str(<<"g", "i", "t", "@", "g", "i", "t", "h", "u", "b", ".", "c", "o", "m", ":", "o", "/", "r">>), Str(<<"g", "i", "t", "h", "u", "b", ".", "c", "o", "m", "/", "o", "/", "r">>), Str(<<".", ".", "/", ".", ".">>),
      Str(<<"h", "t", "t", "p", "s", ":", "/", "/", "g", "i", "t", "h", "u", "b", ".", "c", "o", "m", ".", "e", "v", "i", "l", ".", "c", "o", "m", "/", "o", "/", "r">>), Str(<<"o", "/", "r", "/", "x">>),
      Str(<<"i", "n", "v", "a", "l", "i", "d">>) }

\* GITHUB_AVAILABLE and os.environ.get("GITHUB_TOKEN")
Environments ==
    { [available |-> a, token |-> t] :
          a \in BOOLEAN, t \in { None, Str(<<>>), Str(<<"t">>) } }

CreatePrCalls ==
    { [tool |-> "github_create_pr", title |-> <<"t">>, body |-> <<"b">>,
       head |-> <<"h">>, base |-> <<"m", "a", "i", "n">>, repo |-> r, draft |-> d] :
          r \in GithubRepos, d \in BOOLEAN }

ListPrsCalls ==
    { [tool |-> "github_list_prs", repo |-> r, state |-> <<"o", "p", "e", "n">>,
       limit |-> 10] : r \in GithubRepos }

GetIssueCalls ==
    { [tool |-> "github_get_issue", repo |-> r, issue_number |-> 7,
       include_comments |-> ic, max_comments |-> 10] :
          r \in GithubRepos, ic \in BOOLEAN }

GithubCalls == CreatePrCalls \cup ListPrsCalls \cup GetIssueCalls

(***************************************************************************)
(* One call of a GitHub tool.                                              *)
(***************************************************************************)
InitGithub ==
    /\ pc = "start"
    /\ cwd = <<"/">>
    /\ target_dir = <<>>
    /\ base_dir = <<"/", "w">>
    /\ result = NoResult
    /\ ref = NoRef
    /\ repo_url = None
    /\ parsed = NoParse
    /\ earlier = NoResult
    /\ call \in GithubCalls
    /\ fs = NoFs
    /\ env \in Environments
    /\ trace = <<>>
    /\ ret = NoRet

CallGithubCreatePr ==
    /\ pc = "start"
    /\ call.tool = "github_create_pr"
    /\ \E r \in GithubCreatePrTool(call, env) : Return(r) /\ UNCHANGED fs

CallGithubListPrs ==
    /\ pc = "start"
    /\ call.tool = "github_list_prs"
    /\ \E r \in GithubListPrsTool(call, env) : Return(r) /\ UNCHANGED fs

CallGithubGetIssue ==
    /\ pc = "start"
    /\ call.tool = "github_get_issue"
    /\ \E r \in GithubGetIssueTool(call, env) : Return(r) /\ UNCHANGED fs

NextGithub ==
    \/ CallGithubCreatePr
    \/ CallGithubListPrs
    \/ CallGithubGetIssue

SpecGithub == InitGithub /\ [][NextGithub]_vars

(***************************************************************************)
(* _get_github_error_message on its own: one exception, one message.       *)
(***************************************************************************)

\* the texts GitHub can send as 'message' or as the whole data
Messages == { <<>>, <<" ">>, <<"x">>, <<"N", "o", "t", " ", "F", "o", "u", "n", "d">> }

Statuses == { 400, 401, 403, 404, 422, 500 }

\* GithubException(status, data): data is None, a dict without 'message', a
\* dict with one, or a string; str(e) starts with the status
Exceptions ==
    { [kind |-> k[1], has |-> k[2], value |-> v, str |-> IntStr(n)] :
          k \in { <<"none", FALSE>>, <<"dict", FALSE>> }, v \in { <<>> },
          n \in Statuses }
    \cup { [kind |-> k[1], has |-> k[2], value |-> v, str |-> IntStr(n)] :
               k \in { <<"dict", TRUE>>, <<"str", FALSE>> }, v \in Messages,
               n \in Statuses }

InitMessage ==
    /\ pc = "start"
    /\ cwd = <<"/">>
    /\ target_dir = <<>>
    /\ base_dir = <<"/", "w">>
    /\ result = NoResult
    /\ ref = NoRef
    /\ repo_url = None
    /\ parsed = NoParse
    /\ earlier = NoResult
    /\ call \in { [tool |-> "_get_github_error_message", e |-> e] :
                      e \in Exceptions }
    /\ fs = NoFs
    /\ env = NoEnv
    /\ trace = <<>>
    /\ ret = NoRet

CallGetGithubErrorMessage ==
    /\ pc = "start"
    /\ ret' = [returned |-> TRUE, value |-> GetGithubErrorMessage(call.e)]
    /\ pc' = "done"
    /\ UNCHANGED <<cwd, target_dir, base_dir, result, ref, repo_url, parsed,
                   earlier, call, fs, env, trace>>

NextMessage == CallGetGithubErrorMessage

SpecMessage == InitMessage /\ [][NextMessage]_vars

(***************************************************************************)
(* register_custom_tools: the classes offered to Serena's ToolRegistry.    *)
(***************************************************************************)

\* git_tools of register_custom_tools, in list order
GitToolClasses ==
    <<"GitCloneTool", "GitStatusTool", "GitDiffTool", "GitCommitTool",
      "GitPushTool", "GitCheckoutBranchTool">>

\* the names register_custom_tools imports from .tools.github_tools, in the
\* order of its github_tools list
GithubToolImports ==
    <<"GitHubCreatePRTool", "GitHubListPRsTool", "GitHubGetIssueTool">>

\* the tool classes the module tools/github_tools.py defines
GithubToolsModule ==
    { "GithubCreatePrTool", "GithubListPrsTool", "GithubGetIssueTool" }

\* __all__ of the package tools
ToolsAll ==
    { GitToolClasses[k] : k \in DOMAIN GitToolClasses } \cup GithubToolsModule

\* one of the two for loops: registry.register_tool_class(tool_class) for
\* every class of the list, an exception of the registry logged and passed
RegisterAll(classes, failing) ==
    [k \in DOMAIN classes |->
        [op |-> "register_tool_class", args |-> <<classes[k]>>, path |-> <<>>,
         res |-> [raised |-> classes[k] \in failing]]]

\* register_custom_tools() where Serena is installed or not and the registry
\* refuses the classes of e.failing; `from module import name` raises
\* ImportError when the module does not define the name
RegisterCustomTools(e) ==
    IF ~e.serena
    THEN [trace |-> <<>>, ret |-> [returned |-> TRUE, raised |-> "none"]]
    ELSE LET git == RegisterAll(GitToolClasses, e.failing)
         IN  IF \E k \in DOMAIN GithubToolImports :
                    GithubToolImports[k] \notin GithubToolsModule
             THEN [trace |-> git,
                   ret |-> [returned |-> FALSE, raised |-> "ImportError"]]
             ELSE [trace |-> git \o RegisterAll(GithubToolImports, e.failing),
                   ret |-> [returned |-> TRUE, raised |-> "none"]]

InitRegister ==
    /\ pc = "start"
    /\ cwd = <<"/">>
    /\ target_dir = <<>>
    /\ base_dir = <<"/", "w">>
    /\ result = NoResult
    /\ ref = NoRef
    /\ repo_url = None
    /\ parsed = NoParse
    /\ earlier = NoResult
    /\ call = [tool |-> "register_custom_tools"]
    /\ fs = NoFs
    /\ env \in { [serena |-> b, failing |-> f] :
                     b \in BOOLEAN, f \in SUBSET ToolsAll }
    /\ trace = <<>>
    /\ ret = NoRet

CallRegisterCustomTools ==
    /\ pc = "start"
    /\ LET r == RegisterCustomTools(env)
       IN  trace' = r.trace /\ ret' = r.ret
    /\ pc' = "done"
    /\ UNCHANGED <<cwd, target_dir, base_dir, result, ref, repo_url, parsed,
                   earlier, call, fs, env>>

NextRegister == CallRegisterCustomTools

SpecRegister == InitRegister /\ [][NextRegister]_vars

(***************************************************************************)
(* Properties of _sanitize_path, checked under SpecPath.                   *)
(***************************************************************************)
\* s is t or lies below t, segment by segment
IsSegPrefix(t, s) == Len(t) <= Len(s) /\ SubSeq(s, 1, Len(t)) = t

\* lexical resolution of '.' and '..' of segs on top of the directory stack
RECURSIVE Resolve(_, _)
Resolve(stack, segs) ==
    IF segs = <<>> THEN stack
    ELSE LET h == Head(segs)
         IN  IF h = <<>> \/ h = <<".">> THEN Resolve(stack, Tail(segs))
             ELSE IF h = <<".", ".">>
             THEN Resolve(IF stack = <<>> THEN <<>>
                          ELSE SubSeq(stack, 1, Len(stack) - 1), Tail(segs))
             ELSE Resolve(Append(stack, h), Tail(segs))

\* the target begins with the root indicator
TargetAbsolute == target_dir # <<>> /\ target_dir[1] = "/"

\* the directories of the base, resolved against the current directory when
\* the base is relative
BaseStack ==
    Resolve(IF base_dir # <<>> /\ base_dir[1] = "/" THEN <<>>
            ELSE Resolve(<<>>, Split(cwd, "/")),
            Split(base_dir, "/"))

\* the directories of join(base, target) after lexical normalization
FullStack == Resolve(BaseStack, Split(target_dir, "/"))

\* the target is made only of ordinary name segments
PlainTarget ==
    /\ target_dir # <<>>
    /\ \A i \in DOMAIN Split(target_dir, "/") :
           Split(target_dir, "/")[i] \notin {<<>>, <<".">>, <<".", ".">>}

\* the canonicalized base of the call
CanonBase == abspath(base_dir, cwd)

\* C1: whenever _sanitize_path returns no error, the returned path is the
\* canonicalized base or starts with the canonicalized base followed by '/';
\* a path that only shares the base as a string prefix is never accepted.
C1_Containment ==
    (pc = "done" /\ result.error.none) =>
        \/ result.path = CanonBase
        \/ /\ Len(result.path) > Len(CanonBase)
           /\ SubSeq(result.path, 1, Len(CanonBase) + 1) = CanonBase \o <<"/">>

\* a path strictly below the base was accepted
C1_Witness ==
    /\ pc = "done"
    /\ result.error.none
    /\ result.path # CanonBase

\* C2: an absolute target is rejected with an empty path and the reason
\* 'Absolute paths are not allowed', also when it contains '..'.
C2_AbsoluteRejected ==
    (pc = "done" /\ TargetAbsolute) =>
        /\ result.path = <<>>
        /\ ~result.error.none
        /\ result.error.text = "Absolute paths are not allowed"

\* an absolute target with a '..' segment was rejected as absolute
C2_Witness ==
    /\ pc = "done"
    /\ TargetAbsolute
    /\ \E i \in DOMAIN Split(target_dir, "/") :
           Split(target_dir, "/")[i] = <<".", ".">>
    /\ result.error.text = "Absolute paths are not allowed"

\* C3: a relative target whose lexical normalization on top of the base is
\* neither the base nor below it is rejected with an empty path and the
\* reason 'Path traversal detected'.
C3_TraversalRejected ==
    (pc = "done" /\ ~TargetAbsolute /\ ~IsSegPrefix(BaseStack, FullStack)) =>
        /\ result.path = <<>>
        /\ ~result.error.none
        /\ result.error.text = "Path traversal detected"

\* a traversal hidden behind a name segment ('w/../../we') was rejected
C3_Witness ==
    /\ pc = "done"
    /\ ~TargetAbsolute
    /\ ~IsSegPrefix(BaseStack, FullStack)
    /\ Split(target_dir, "/")[1] \notin {<<>>, <<".">>, <<".", ".">>}
    /\ result.error.text = "Path traversal detected"

\* C4: for every base directory, a relative target made only of ordinary
\* name segments is accepted and the returned path is the canonicalized base
\* joined with the target, with no error.
C4_PlainAccepted ==
    (pc = "done" /\ PlainTarget) =>
        result = [path |-> join(CanonBase, target_dir), error |-> NoError]

\* C5: _sanitize_path('./' + x, base) returns the same pair as
\* _sanitize_path(x, base) for every relative target x.
C5_DotSlashSame ==
    (pc = "done" /\ ~TargetAbsolute) =>
        SanitizePath(<<".", "/">> \o target_dir, base_dir, cwd) = result

\* a target with a '..' segment that stays below the base was accepted
C5_Witness ==
    /\ pc = "done"
    /\ ~TargetAbsolute
    /\ \E i \in DOMAIN Split(target_dir, "/") :
           Split(target_dir, "/")[i] = <<".", ".">>
    /\ result.error.none
    /\ Len(result.path) > Len(CanonBase)

\* C6: the result has either no error and a non-empty absolute path, or a
\* non-empty reason and the empty path.
C6_ResultShape ==
    pc = "done" =>
        \/ /\ result.error.none
           /\ result.path # <<>>
           /\ result.path[1] = "/"
        \/ /\ ~result.error.none
           /\ result.error.text # ""
           /\ result.path = <<>>

\* a call with a relative base returned an accepted path
C6_Witness ==
    /\ pc = "done"
    /\ (base_dir = <<>> \/ base_dir[1] # "/")
    /\ result.error.none
    /\ result.path # <<>>

\* C7: for every base, the targets '.' and '' are accepted and the returned
\* path is the canonicalized base.
C7_BaseItself ==
    (pc = "done" /\ target_dir \in {<<".">>, <<>>}) =>
        result = [path |-> CanonBase, error |-> NoError]

\* C15: two calls of _sanitize_path with the same arguments return the same
\* result whatever the process state at the time of each call, for absolute
\* and relative bases alike.
C15_Pure ==
    pc = "again" => result = earlier

(***************************************************************************)
(* Properties of _parse_repo_info, checked under SpecRepo.                 *)
(***************************************************************************)
GithubSlash == <<"g", "i", "t", "h", "u", "b", ".", "c", "o", "m", "/">>
SshPrefix   == <<"g", "i", "t", "@", "g", "i", "t", "h", "u", "b", ".", "c", "o", "m", ":">>
DotGit      == <<".", "g", "i", "t">>

\* the prefixes of the HTTPS shape
HttpsPrefixes ==
    { sc \o ww \o GithubSlash :
        sc \in {<<>>, <<"h", "t", "t", "p", "s", ":", "/", "/">>, <<"h", "t", "t", "p", ":", "/", "/">>}, ww \in {<<>>, <<"w", "w", "w", ".">>} }

\* s is a non-empty string over [A-Za-z0-9_.-]
IsToken(s) ==
    /\ s # <<>>
    /\ \A i \in DOMAIN s :
           \/ s[i] \in {"_", ".", "-"}
           \/ (97 <= Ord(s[i]) /\ Ord(s[i]) <= 122)
           \/ (65 <= Ord(s[i]) /\ Ord(s[i]) <= 90)
           \/ (48 <= Ord(s[i]) /\ Ord(s[i]) <= 57)

\* the reference is <prefix><owner>/<name> in one of the three shapes, with
\* the decorations the shape allows and no surrounding whitespace
InShape ==
    /\ ~ref.none
    /\ ref.lead = <<>> /\ ref.trail = <<>>
    /\ Len(ref.segs) = 2
    /\ IsToken(ref.segs[1]) /\ IsToken(ref.segs[2])
    /\ \/ ref.prefix \in HttpsPrefixes
       \/ ref.prefix = SshPrefix /\ ~ref.slash
       \/ ref.prefix = <<>> /\ ~ref.git /\ ~ref.slash

\* the name token has '.git' as a proper suffix
NameEndsDotGit ==
    /\ Len(ref.segs[2]) > 4
    /\ SubSeq(ref.segs[2], Len(ref.segs[2]) - 3, Len(ref.segs[2])) = DotGit

\* C8 as stated: for every owner and name token, each of the three shapes
\* (with the optional scheme, 'www.', trailing '.git' and trailing '/')
\* yields the pair (owner, name).
C8_ThreeShapes ==
    (pc = "done" /\ InShape) =>
        parsed = [owner |-> Str(ref.segs[1]), name |-> Str(ref.segs[2])]

\* C8 amended: the same, for every name token that does not have '.git' as
\* a proper suffix.
C8_ThreeShapesAmended ==
    (pc = "done" /\ InShape /\ ~NameEndsDotGit) =>
        parsed = [owner |-> Str(ref.segs[1]), name |-> Str(ref.segs[2])]

\* an HTTPS reference with 'www.', a trailing '.git' and a trailing '/' was
\* parsed
C8_Witness ==
    /\ pc = "done"
    /\ InShape
    /\ ~NameEndsDotGit
    /\ ref.prefix = <<"h", "t", "t", "p", "s", ":", "/", "/", "w", "w", "w", ".", "g", "i", "t", "h", "u", "b", ".", "c", "o", "m", "/">>
    /\ ref.git /\ ref.slash
    /\ ~parsed.owner.isNone

\* the argument as the patterns see it
Stripped == strip(repo_url.s)

\* the input has a scheme, an '@' or a ':' in it
UrlShaped == \E i \in DOMAIN Stripped : Stripped[i] \in {":", "@"}

\* the input begins with the host github.com (after an optional scheme and
\* 'www.') or with git@github.com:
HostAnchored ==
    \E p \in HttpsPrefixes \cup {SshPrefix} :
        /\ Len(p) <= Len(Stripped)
        /\ SubSeq(Stripped, 1, Len(p)) = p

\* C9: a URL-shaped input is accepted only when its host token is exactly
\* github.com; inputs that carry github.com in a path, a query string, a
\* spoofed subdomain or before an '@' yield (None, None).
C9_HostAnchoring ==
    (pc = "done" /\ ~repo_url.isNone /\ UrlShaped /\ ~HostAnchored) =>
        parsed = [owner |-> None, name |-> None]

\* a URL whose host is a spoofed subdomain of github.com was rejected
\* although an owner and a name token follow it
C9_Witness ==
    /\ pc = "done"
    /\ ~repo_url.isNone
    /\ UrlShaped
    /\ ~HostAnchored
    /\ ref.prefix = <<"h", "t", "t", "p", "s", ":", "/", "/", "g", "i", "t", "h", "u", "b", ".", "c", "o", "m", ".", "e", "v", "i", "l", ".", "c", "o", "m", "/">>
    /\ Len(ref.segs) = 2
    /\ IsToken(ref.segs[1]) /\ IsToken(ref.segs[2])
    /\ parsed = [owner |-> None, name |-> None]

\* the reference is one of the three shapes followed by at least one more
\* non-empty '/'-separated segment
ExtraSegments ==
    /\ ~ref.none
    /\ ref.lead = <<>> /\ ref.trail = <<>>
    /\ ref.prefix \in HttpsPrefixes \cup {SshPrefix, <<>>}
    /\ Len(ref.segs) >= 3
    /\ IsToken(ref.segs[1]) /\ IsToken(ref.segs[2])
    /\ \E i \in 3..Len(ref.segs) : ref.segs[i] # <<>>

\* a bare reference whose first token reads as the host of the HTTPS shape
BareReadsAsHost ==
    /\ ref.prefix = <<>>
    /\ ref.segs[1] \in {<<"g", "i", "t", "h", "u", "b", ".", "c", "o", "m">>, <<"w", "w", "w", ".", "g", "i", "t", "h", "u", "b", ".", "c", "o", "m">>}

MatchingPatterns ==
    { i \in 1..3 :
        MatchItems(<<GITHUB_URL_PATTERN, GITHUB_SSH_PATTERN,
                     OWNER_REPO_PATTERN>>[i], Stripped, <<>>).ok }

\* the three matches of the argument as the patterns see it
Matches ==
    [i \in 1..3 |->
        MatchItems(<<GITHUB_URL_PATTERN, GITHUB_SSH_PATTERN,
                     OWNER_REPO_PATTERN>>[i], Stripped, <<>>)]

\* the result of returning the first match of ms in the order ord
FirstInOrder(ms, ord) ==
    IF \A i \in 1..3 : ~ms[ord[i]].ok THEN [owner |-> None, name |-> None]
    ELSE LET first == CHOOSE i \in 1..3 :
                          ms[ord[i]].ok /\ \A j \in 1..(i - 1) : ~ms[ord[j]].ok
         IN  [owner |-> Str(ms[ord[first]].groups[1]),
              name  |-> Str(ms[ord[first]].groups[2])]

\* C11: every accepted input matches exactly one of the three patterns, so
\* no order of trying the patterns changes the returned pair.
C11_Exclusive ==
    (pc = "done" /\ ~repo_url.isNone /\ ~parsed.owner.isNone) =>
        LET ms == Matches
        IN  /\ Cardinality({i \in 1..3 : ms[i].ok}) = 1
            /\ \A ord \in {<<1, 2, 3>>, <<1, 3, 2>>, <<2, 1, 3>>,
                           <<2, 3, 1>>, <<3, 1, 2>>, <<3, 2, 1>>} :
                   FirstInOrder(ms, ord) = parsed

\* a scheme-less HTTPS reference, whose text is also owner/name-like up to
\* its second '/', was accepted
C11_Witness ==
    /\ pc = "done"
    /\ ~repo_url.isNone
    /\ ~parsed.owner.isNone
    /\ ref.prefix = GithubSlash
    /\ MatchingPatterns = {1}

\* the reference without the surrounding whitespace
Core ==
    ref.prefix \o Join(ref.segs, "/")
        \o (IF ref.git THEN DotGit ELSE <<>>)
        \o (IF ref.slash THEN <<"/">> ELSE <<>>)

\* a whitespace character strictly inside s
InnerSpace(s) ==
    \E i \in 2..(Len(s) - 1) :
        /\ s[i] \in {" ", "\n"}
        /\ \E j \in 1..(i - 1) : s[j] \notin {" ", "\n"}
        /\ \E j \in (i + 1)..Len(s) : s[j] \notin {" ", "\n"}

\* C12: leading and trailing whitespace does not change the result, and a
\* reference with whitespace inside is never accepted.
C12_Whitespace ==
    (pc = "done" /\ ~ref.none) =>
        /\ parsed = ParseRepoInfo(Str(Core))
        /\ InnerSpace(repo_url.s) => parsed = [owner |-> None, name |-> None]

\* a reference with whitespace on both sides was accepted
C12_Witness ==
    /\ pc = "done"
    /\ ~ref.none
    /\ ref.lead # <<>> /\ ref.trail # <<>>
    /\ ~parsed.owner.isNone

\* C13: the result is (None, None) or a pair of two non-empty strings over
\* [A-Za-z0-9_.-]; None, '' and a single word yield (None, None).
C13_ParseShape ==
    pc = "done" =>
        /\ \/ parsed = [owner |-> None, name |-> None]
           \/ /\ ~parsed.owner.isNone /\ ~parsed.name.isNone
              /\ IsToken(parsed.owner.s) /\ IsToken(parsed.name.s)
        /\ (repo_url.isNone \/ repo_url.s = <<>> \/ IsToken(repo_url.s)) =>
               parsed = [owner |-> None, name |-> None]

\* a single word ('invalid') was rejected
C13_Witness ==
    /\ pc = "done"
    /\ ~repo_url.isNone
    /\ IsToken(repo_url.s)
    /\ parsed = [owner |-> None, name |-> None]

\* the reference is <prefix><owner>/<name>.git in one of the three shapes
DotGitShape ==
    /\ ~ref.none
    /\ ref.lead = <<>> /\ ref.trail = <<>>
    /\ Len(ref.segs) = 2
    /\ IsToken(ref.segs[1]) /\ IsToken(ref.segs[2])
    /\ ref.git
    /\ \/ ref.prefix \in HttpsPrefixes
       \/ ref.prefix = SshPrefix /\ ~ref.slash
       \/ ref.prefix = <<>> /\ ~ref.slash

\* C14: in each of the three shapes a '.git' that follows the name token is
\* not part of the returned name, so 'owner/repo.git' yields the same pair as
\* its HTTPS and SSH forms.
C14_DotGitStripped ==
    (pc = "done" /\ DotGitShape) =>
        parsed = [owner |-> Str(ref.segs[1]), name |-> Str(ref.segs[2])]

\* C19: no accepted reference has '.' or '..' as owner or name.
C19_NoDotSegment ==
    (pc = "done" /\ ~parsed.owner.isNone) =>
        /\ parsed.owner.s \notin {<<".">>, <<".", ".">>}
        /\ parsed.name.s \notin {<<".">>, <<".", ".">>}

(***************************************************************************)
(* Properties of the Git tools, checked under SpecGit.                     *)
(***************************************************************************)
\* the paths that _sanitize_path accepted during the call
AcceptedPaths ==
    { trace[i].res.path :
          i \in { j \in DOMAIN trace : /\ trace[j].op = "_sanitize_path"
                                       /\ trace[j].res.error.none } }

\* the `git clone` commands of the call
CloneRuns ==
    { i \in DOMAIN trace : /\ trace[i].op = "git"
                           /\ trace[i].args[1] = <<"c", "l", "o", "n", "e">> }

\* the destination of the `git clone` command i: its last argument
Destination(i) == trace[i].args[Len(trace[i].args)]

\* C16: in every execution of every Git tool, each path handed to
\* _run_git_command as working directory or as clone destination is the
\* workspace root or a path that _sanitize_path accepted; a raw repo_path never
\* reaches the git subprocess.
C16_RunnerConfined ==
    pc = "done" =>
        \A i \in DOMAIN trace :
            trace[i].op = "git" =>
                /\ trace[i].path \in {base_dir} \cup AcceptedPaths
                /\ i \in CloneRuns =>
                       Destination(i) \in {base_dir} \cup AcceptedPaths

\* C18: GitCloneTool validates the target before any filesystem probe,
\* directory creation or git invocation; when _sanitize_path rejects the
\* target the tool returns success false with the validator's reason and makes
\* no other call.
C18_ValidationFirst ==
    (pc = "done" /\ call.tool = "git_clone") =>
        /\ trace # <<>>
        /\ trace[1].op = "_sanitize_path"
        /\ ~trace[1].res.error.none =>
               /\ Len(trace) = 1
               /\ ret.returned /\ ~ret.success
               /\ ret.error = trace[1].res.error

\* a clone whose target escapes the workspace returned the validator's reason
C18_Witness ==
    /\ pc = "done"
    /\ call.tool = "git_clone"
    /\ call.target_dir = Str(<<".", ".", "/", "w", "e">>)
    /\ ~ret.success
    /\ ret.error.text = "Path traversal detected"
    /\ Len(trace) = 1

\* the directories of the path p, resolved against the current directory when
\* p is relative
Dirs(p) ==
    Resolve(IF p # <<>> /\ p[1] = "/" THEN <<>>
            ELSE Resolve(<<>>, Split(cwd, "/")),
            Split(p, "/"))

\* C20: for every repo_url and target_dir, the derived directory name of
\* target_dir=None included, the destination of any `git clone` that
\* GitCloneTool issues is the workspace root or lies below it.
C20_CloneInside ==
    pc = "done" =>
        \A i \in CloneRuns : IsSegPrefix(Dirs(base_dir), Dirs(Destination(i)))

\* a clone was issued for a URL ending in '/.' with the directory derived
\* from the URL
C20_Witness ==
    /\ pc = "done"
    /\ call.tool = "git_clone"
    /\ call.target_dir.isNone
    /\ Len(call.repo_url) >= 2
    /\ SubSeq(call.repo_url, Len(call.repo_url) - 1, Len(call.repo_url))
           = <<"/", ".">>
    /\ CloneRuns # {}

(***************************************************************************)
(* Properties of the GitHub tools, checked under SpecGithub.               *)
(***************************************************************************)
\* the calls made on the GitHub client during the tool call
ClientCalls ==
    { i \in DOMAIN trace :
          trace[i].op \in {"get_repo", "create_pull", "get_pulls",
                           "get_issue", "get_comments"} }

\* the call i of _parse_repo_info returned an owner and a name
ParseSucceeded(i) ==
    /\ trace[i].op = "_parse_repo_info"
    /\ ~trace[i].res.owner.isNone
    /\ ~trace[i].res.name.isNone

\* C17: in the three GitHub tools get_repo is called only after
\* _parse_repo_info returned a non-None owner and name, and its argument is
\* exactly '<owner>/<name>' built from that result, not the repo string as it
\* was given; when parsing fails no call on the client is made and the tool
\* returns success false with 'Could not parse repository'.
C17_ClientValidated ==
    pc = "done" =>
        /\ \A i \in DOMAIN trace :
               trace[i].op = "get_repo" =>
                   \E j \in 1..(i - 1) :
                       /\ ParseSucceeded(j)
                       /\ trace[i].args =
                              <<trace[j].res.owner.s \o <<"/">>
                                \o trace[j].res.name.s>>
        /\ \A j \in DOMAIN trace :
               (trace[j].op = "_parse_repo_info" /\ ~ParseSucceeded(j)) =>
                   /\ ClientCalls = {}
                   /\ ret.returned /\ ~ret.success
                   /\ ret.error.text =
                          "Could not parse repository. Provide repo in 'owner/repo' format."

\* get_repo was called with 'o/r' for the reference
\* 'https://github.com/o/r.git'
C17_Witness ==
    /\ pc = "done"
    /\ call.tool \in {"github_create_pr", "github_list_prs", "github_get_issue"}
    /\ call.repo = Str(<<"h", "t", "t", "p", "s", ":", "/", "/", "g", "i", "t", "h", "u", "b", ".", "c", "o", "m", "/", "o", "/", "r", ".", "g", "i", "t">>)
    /\ \E i \in DOMAIN trace :
           trace[i].op = "get_repo" /\ trace[i].args = <<<<"o", "/", "r">>>>

\* the calls of the operation op made during the tool call
Calls(op) == { i \in DOMAIN trace : trace[i].op = op }

\* C21: when the validated destination already exists GitCloneTool returns
\* success false with an error containing 'already exists', issues no git
\* command and creates no directory; `git clone` is issued only when the
\* destination did not exist at the time of the check.
C21_NeverOverwrites ==
    (pc = "done" /\ call.tool = "git_clone") =>
        /\ (\E j \in Calls("os.path.exists") : trace[j].res.value) =>
               /\ ret.returned /\ ~ret.success
               /\ ret.error.text = "Directory already exists: "
               /\ Calls("git") = {}
               /\ Calls("os.makedirs") = {}
        /\ \A i \in CloneRuns :
               \E j \in 1..(i - 1) :
                   /\ trace[j].op = "os.path.exists"
                   /\ trace[j].path = Destination(i)
                   /\ ~trace[j].res.value

\* a clone into the existing directory 'w' of the workspace was refused
C21_Witness ==
    /\ pc = "done"
    /\ call.tool = "git_clone"
    /\ call.target_dir = Str(<<"w">>)
    /\ \E j \in Calls("os.path.exists") : trace[j].res.value
    /\ ~ret.success
    /\ Calls("git") = {}

\* the runs of `git <command>` made during the tool call
Runs(command) == { i \in Calls("git") : trace[i].args[1] = command }

\* C22: GitCommitTool issues `git commit` at most once per call and only
\* after every `git add` it issued succeeded; at the first failing `git add`
\* it returns success false naming the failure and issues no further git
\* command.
C22_CommitAfterStaging ==
    (pc = "done" /\ call.tool = "git_commit") =>
        /\ Cardinality(Runs(<<"c", "o", "m", "m", "i", "t">>)) <= 1
        /\ \A i \in Runs(<<"c", "o", "m", "m", "i", "t">>) :
               \A j \in Runs(<<"a", "d", "d">>) : j < i /\ trace[j].res.success
        /\ \A j \in Runs(<<"a", "d", "d">>) :
               ~trace[j].res.success =>
                   /\ j = Len(trace)
                   /\ ret.returned /\ ~ret.success
                   /\ \/ /\ ret.error.text = "Failed to stage "
                         /\ ret.error.arg = trace[j].args[2] \o <<":", " ">>
                                            \o trace[j].res.stderr
                      \/ /\ ret.error.text = "Failed to stage changes: "
                         /\ ret.error.arg = trace[j].res.stderr

\* the second `git add` of a commit of two files failed and ended the call
C22_Witness ==
    /\ pc = "done"
    /\ call.tool = "git_commit"
    /\ Cardinality(Runs(<<"a", "d", "d">>)) = 2
    /\ \E j \in Runs(<<"a", "d", "d">>) : ~trace[j].res.success
    /\ \E j \in Runs(<<"a", "d", "d">>) : trace[j].res.success
    /\ Runs(<<"c", "o", "m", "m", "i", "t">>) = {}
    /\ ~ret.success

\* the arguments of the runs of `git add`, in the order they were made
AddArgs ==
    LET adds == SelectSeq([i \in DOMAIN trace |-> i],
                          LAMBDA i : i \in Runs(<<"a", "d", "d">>))
    IN  [k \in DOMAIN adds |-> trace[adds[k]].args]

\* C23: with a non-empty files list GitCommitTool issues one `git add <file>`
\* per listed file in list order and never `git add -A`; with no files and
\* all_changes true it issues exactly one `git add -A`; with no files and
\* all_changes false it issues no `git add` before committing.
C23_StagingMode ==
    (pc = "done" /\ call.tool = "git_commit" /\ Runs(<<"c", "o", "m", "m", "i", "t">>) # {}) =>
        IF ~call.files.isNone /\ call.files.s # <<>>
        THEN /\ AddArgs = [k \in DOMAIN call.files.s |->
                               <<<<"a", "d", "d">>, call.files.s[k]>>]
             /\ \A k \in DOMAIN AddArgs : AddArgs[k] # <<<<"a", "d", "d">>, <<"-", "A">>>>
        ELSE IF call.all_changes
        THEN AddArgs = << <<<<"a", "d", "d">>, <<"-", "A">>>> >>
        ELSE AddArgs = <<>>

\* C24: if the branch exists GitCheckoutBranchTool issues plain
\* `git checkout <branch>`, never `-b`, and reports 'switched to'; if it does
\* not exist and create is true it issues `git checkout -b <branch>
\* [start_point]` and reports 'created and switched to'; if it does not exist
\* and create is false it issues no checkout command and returns success
\* false.  The branch exists when `git rev-parse --verify refs/heads/<branch>`
\* succeeded.
C24_BranchDecision ==
    (pc = "done" /\ call.tool = "git_checkout_branch") =>
        \A i \in Runs(<<"r", "e", "v", "-", "p", "a", "r", "s", "e">>) :
            LET checkouts == { trace[j].args : j \in Runs(<<"c", "h", "e", "c", "k", "o", "u", "t">>) }
            IN  IF trace[i].res.success
                THEN /\ checkouts = { <<<<"c", "h", "e", "c", "k", "o", "u", "t">>, call.branch_name>> }
                     /\ ret.success => ret.info.action = "switched to"
                ELSE IF call.create
                THEN /\ checkouts =
                            { <<<<"c", "h", "e", "c", "k", "o", "u", "t">>, <<"-", "b">>, call.branch_name>>
                              \o (IF call.start_point.isNone
                                     \/ call.start_point.s = <<>>
                                  THEN <<>> ELSE <<call.start_point.s>>) }
                     /\ ret.success =>
                            ret.info.action = "created and switched to"
                ELSE /\ checkouts = {}
                     /\ ret.returned /\ ~ret.success

\* an existing branch was switched to although create was true and a start
\* point was given
C24_Witness ==
    /\ pc = "done"
    /\ call.tool = "git_checkout_branch"
    /\ call.create
    /\ call.start_point = Str(<<"s">>)
    /\ \E i \in Runs(<<"r", "e", "v", "-", "p", "a", "r", "s", "e">>) : trace[i].res.success
    /\ ret.success
    /\ ret.info.action = "switched to"

\* the non-empty lines of the output text
OutputLines(text) == SelectSeq(Split(text, "\n"), LAMBDA line : line # <<>>)

\* C25: when `git status --short` succeeds, the files list has one entry per
\* non-empty output line, in output order; for every line, the first one and
\* those whose status code begins with a space included, the status is the
\* line's first two characters trimmed and the file is the line's text from
\* index 3 onward; is_clean is true exactly when the list is empty.
C25_StatusParsing ==
    (pc = "done" /\ call.tool = "git_status" /\ ret.returned /\ ret.success) =>
        LET lines == OutputLines(ret.info.raw_status)
        IN  /\ ret.info.files =
                   [i \in DOMAIN lines |->
                       [status |-> strip(Take(lines[i], 2)),
                        file |-> Drop(lines[i], 3)]]
            /\ ret.info.is_clean <=> (ret.info.files = <<>>)

\* C26: for every outcome of the subprocess _run_git_command returns a record
\* with stdout, stderr, return_code and success; success is true exactly when
\* return_code is 0; on a timeout or any other exception return_code is -1
\* and success is false.
C26_NeverRaises ==
    (pc = "done" /\ call.tool = "_run_git_command") =>
        /\ ret.returned
        /\ DOMAIN ret.value = {"stdout", "stderr", "return_code", "success"}
        /\ ret.value.success <=> (ret.value.return_code = 0)
        /\ env.subprocess.kind \in {"timeout", "exception"} =>
               ret.value.return_code = -1 /\ ~ret.value.success

\* an exception with the text "e" came back as a record
C26_Witness ==
    /\ pc = "done"
    /\ call.tool = "_run_git_command"
    /\ env.subprocess.kind = "exception"
    /\ ret.returned
    /\ ret.value.return_code = -1
    /\ ret.value.stderr = <<"e">>

\* C27: in the status, diff, commit, push and checkout tools, when repo_path
\* is None or empty and the workspace is missing or has no direct child
\* directory containing '.git', the tool returns success false with 'No
\* repository found' and runs no git command.
C27_NoRepositoryNoGit ==
    (/\ pc = "done"
     /\ call.tool \in {"git_status", "git_diff", "git_commit", "git_push",
                       "git_checkout_branch"}
     /\ call.repo_path.isNone \/ call.repo_path.s = <<>>
     /\ ~fs.ws \/ \A k \in DOMAIN fs.entries :
                      ~(fs.entries[k].dir /\ fs.entries[k].git)) =>
        /\ ret.returned
        /\ ~ret.success
        /\ ret.error.text = "No repository found. Clone a repository first."
        /\ Calls("git") = {}

\* push with an empty repo_path in a workspace whose only directory holds no
\* '.git'
C27_Witness ==
    /\ pc = "done"
    /\ call.tool = "git_push"
    /\ call.repo_path = Str(<<>>)
    /\ fs.ws
    /\ \E j \in Calls("os.path.isdir") : trace[j].res.value
    /\ \A j \in Calls("os.path.exists") :
           trace[j].path # base_dir => ~trace[j].res.value
    /\ ~ret.success
    /\ Calls("git") = {}

\* C28: each GitHub tool checks, in this order, that PyGithub is available,
\* that a client could be built from GITHUB_TOKEN, and that the repository
\* string parses; the first failing check alone determines the error (an
\* unparseable repository with no token reports the GITHUB_TOKEN error), and
\* no call on the repository API is made when a check fails.
C28_CheckOrder ==
    (pc = "done" /\ call.tool \in {"github_create_pr", "github_list_prs",
                                   "github_get_issue"}) =>
        IF ~env.available
        THEN /\ ret.returned /\ ~ret.success
             /\ ret.error.text =
                    "PyGithub is not installed. Please install it with: pip install PyGithub"
             /\ trace = <<>>
        ELSE IF env.token.isNone \/ env.token.s = <<>>
        THEN /\ ret.returned /\ ~ret.success
             /\ ret.error.text =
                    "GITHUB_TOKEN environment variable not set. Please configure it."
             /\ Calls("_parse_repo_info") = {}
             /\ ClientCalls = {}
        ELSE /\ \E i \in Calls("Github") : \E j \in Calls("_parse_repo_info") :
                    i < j /\ \A k \in ClientCalls : j < k
             /\ \A j \in Calls("_parse_repo_info") :
                    ~ParseSucceeded(j) =>
                        /\ ret.returned /\ ~ret.success
                        /\ ret.error.text =
                               "Could not parse repository. Provide repo in 'owner/repo' format."
                        /\ ClientCalls = {}

\* a repository string that does not parse, given without a token, was
\* answered with the GITHUB_TOKEN error
C28_Witness ==
    /\ pc = "done"
    /\ call.tool = "github_list_prs"
    /\ env.available
    /\ env.token.isNone
    /\ ParseRepoInfo(call.repo).owner.isNone
    /\ ~ret.success
    /\ ret.error.text =
           "GITHUB_TOKEN environment variable not set. Please configure it."

\* C29: for every shape of e.data (None, a dict with or without 'message', a
\* non-empty string, an empty string) _get_github_error_message returns a
\* non-empty string: the dict's 'message' or the string data when present,
\* str(e) otherwise.
C29_UsableMessage ==
    (pc = "done" /\ call.tool = "_get_github_error_message") =>
        /\ ret.returned
        /\ ret.value # <<>>
        /\ ret.value =
               IF call.e.kind = "dict" /\ call.e.has THEN call.e.value
               ELSE IF call.e.kind = "str" /\ call.e.value # <<>>
               THEN call.e.value
               ELSE call.e.str

\* C30: after register_custom_tools() with Serena installed, all six Git tool
\* classes and all three GitHub tool classes have been offered to the
\* registry, and a failure to register one class does not prevent the
\* registration of the rest.
C30_RegistrationComplete ==
    (pc = "done" /\ call.tool = "register_custom_tools" /\ env.serena) =>
        /\ ret.returned
        /\ \A n \in { "GitCloneTool", "GitStatusTool", "GitDiffTool",
                      "GitCommitTool", "GitPushTool", "GitCheckoutBranchTool",
                      "GithubCreatePrTool", "GithubListPrsTool",
                      "GithubGetIssueTool" } :
               \E i \in Calls("register_tool_class") : trace[i].args = <<n>>

====
